---------------------------- MODULE Spec2Model ----------------------------
(***************************************************************************)
(* ISO 10962 CFI code decoder (crate iso10962-types).                      *)
(*                                                                         *)
(* The crate is a set of pure decoders generated by three macros           *)
(* (impl_attr!, impl_group!, impl_category!) plus the root Code enum.      *)
(* The model keeps the declarations as schema tables, one per macro        *)
(* invocation, and the decoders as operators that interpret those tables   *)
(* the way the macro expansions do.  The state machine records the last    *)
(* decoder call (which decoder, on which type, with which arguments) and   *)
(* what it returned, together with the slice indices it read.              *)
(* The tag predicates (is_<variant>) and mem::size_of::<Code>() are calls   *)
(* of the same kind, on a value instead of a slice.  A second              *)
(* specification, SpecPar, runs Code::from_bytes statement by statement    *)
(* in several threads.                                                     *)
(*                                                                         *)
(* Bytes are numbers 0..255.  Slices are sequences; Rust index i is        *)
(* sequence position i + 1.  An index past the end of a slice is a panic.  *)
(*                                                                         *)
(* debt.rs and civ.rs invoke the macros with an older grammar (an error    *)
(* identifier after the position list, no character literal after a        *)
(* category variant); their tables keep the name, positions, variants and  *)
(* code points that are written there.                                     *)
(***************************************************************************)
EXTENDS Integers, Sequences, FiniteSets, TLC

VARIABLES
    fn,      \* the decoder last called ("none" before the first call)
    ty,      \* the name of the type it was called on
    value,   \* its slice argument (<< >> when it takes a single byte)
    arg,     \* its idx / INDEX / byte argument (0 when it has none)
    result,  \* [res |-> what it returned, reads |-> slice indices it read]
    self,    \* the value a predicate or size query was called on
    calls    \* the Code::from_bytes calls in progress, one per thread

vars == <<fn, ty, value, arg, result, self, calls>>

\* ------------------------------------------------------------------------
\* Bytes
\* ------------------------------------------------------------------------

Upper == <<"A", "B", "C", "D", "E", "F", "G", "H", "I", "J", "K", "L", "M",
           "N", "O", "P", "Q", "R", "S", "T", "U", "V", "W", "X", "Y", "Z">>

\* b'c' for an upper-case ASCII letter c
b(c) == 64 + (CHOOSE i \in 1..26 : Upper[i] = c)

Byte == 0..255

\* lib.rs constants
CFI_LENGTH == 6
CATEGORY_IDX == 0
GROUP_IDX == 1

\* ------------------------------------------------------------------------
\* error::Error and Result, as the decoders construct them
\* ------------------------------------------------------------------------

InvalidLength == [kind |-> "InvalidLength"]
InvalidCategory(c) == [kind |-> "InvalidCategory", ch |-> c]
InvalidGroup(c) == [kind |-> "InvalidGroup", ch |-> c]
InvalidAttribute(p, c) == [kind |-> "InvalidAttribute", pos |-> p, ch |-> c]

Ok(v) == [tag |-> "Ok", val |-> v]
Err(e) == [tag |-> "Err", val |-> e]
\* value[i] with i >= value.len(): index out of bounds
Panic(i, n) == [tag |-> "Panic", val |-> [kind |-> "IndexOutOfBounds", index |-> i, len |-> n]]

\* the u8 discriminant of the Undefined variant every impl_attr! enum gets
Undefined_value == b("X")

\* ---- lib.rs : attribute enumerations (impl_attr!) ----

\* Form declared for byte index 4 instead of 5: `pub enum Form[4]`
Form_at_index_4 ==
    [name |-> "crate::Form", idx |-> {4},
     variants |-> <<
        [variant |-> "Bearer", value |-> b("B")],
        [variant |-> "Registered", value |-> b("R")],
        [variant |-> "BearerRegistered", value |-> b("N")],
        [variant |-> "Other", value |-> b("M")] >>]

Form ==
    [name |-> "crate::Form", idx |-> {5},
     variants |-> <<
        [variant |-> "Bearer", value |-> b("B")],
        [variant |-> "Registered", value |-> b("R")],
        [variant |-> "BearerRegistered", value |-> b("N")],
        [variant |-> "Other", value |-> b("M")] >>]

NotApplicable ==
    [name |-> "crate::NotApplicable", idx |-> {2, 3, 4, 5},
     variants |-> << >>]

Standardized ==
    [name |-> "crate::Standardized", idx |-> {4, 5},
     variants |-> <<
        [variant |-> "Standardized", value |-> b("S")],
        [variant |-> "NonStandardized", value |-> b("N")] >>]

\* ---- equities.rs : attribute enumerations (impl_attr!) ----

equities_VotingRight ==
    [name |-> "equities::VotingRight", idx |-> {2},
     variants |-> <<
        [variant |-> "Voting", value |-> b("V")],
        [variant |-> "NonVoting", value |-> b("N")],
        [variant |-> "Restricted", value |-> b("R")],
        [variant |-> "Enhanced", value |-> b("E")] >>]

equities_Ownership ==
    [name |-> "equities::Ownership", idx |-> {3},
     variants |-> <<
        [variant |-> "Restricted", value |-> b("T")],
        [variant |-> "Free", value |-> b("U")] >>]

equities_PaymentStatus ==
    [name |-> "equities::PaymentStatus", idx |-> {4},
     variants |-> <<
        [variant |-> "Fully", value |-> b("F")],
        [variant |-> "Nil", value |-> b("O")],
        [variant |-> "Partial", value |-> b("P")] >>]

equities_Redemption ==
    [name |-> "equities::Redemption", idx |-> {3},
     variants |-> <<
        [variant |-> "Redeemable", value |-> b("R")],
        [variant |-> "Extendible", value |-> b("E")],
        [variant |-> "RedeemableExtendible", value |-> b("T")],
        [variant |-> "Exchangeable", value |-> b("G")],
        [variant |-> "RedeemableExchangeableExtendible", value |-> b("A")],
        [variant |-> "RedeemableExchangeable", value |-> b("C")],
        [variant |-> "Perpetual", value |-> b("N")] >>]

equities_Income ==
    [name |-> "equities::Income", idx |-> {4},
     variants |-> <<
        [variant |-> "FixedRate", value |-> b("F")],
        [variant |-> "CumulativeFixedRate", value |-> b("C")],
        [variant |-> "Participating", value |-> b("P")],
        [variant |-> "CumulativeParticipating", value |-> b("Q")],
        [variant |-> "AdjustableRate", value |-> b("A")],
        [variant |-> "NormalRate", value |-> b("N")],
        [variant |-> "AuctionRate", value |-> b("U")] >>]

equities_Dependency ==
    [name |-> "equities::Dependency", idx |-> {2},
     variants |-> <<
        [variant |-> "Common", value |-> b("S")],
        [variant |-> "Preferred", value |-> b("P")],
        [variant |-> "CommonConvertible", value |-> b("C")],
        [variant |-> "PreferredConvertible", value |-> b("F")],
        [variant |-> "LlpUnit", value |-> b("L")],
        [variant |-> "Other", value |-> b("M")] >>]

equities_RedemptionConversion ==
    [name |-> "equities::RedemptionConversion", idx |-> {3},
     variants |-> <<
        [variant |-> "Redeemable", value |-> b("R")],
        [variant |-> "Perpetual", value |-> b("N")],
        [variant |-> "Convertible", value |-> b("B")],
        [variant |-> "ConvertibleRedeemable", value |-> b("D")] >>]

equities_Kind ==
    [name |-> "equities::Kind", idx |-> {2},
     variants |-> <<
        [variant |-> "Tracker", value |-> b("A")],
        [variant |-> "Outperforming", value |-> b("B")],
        [variant |-> "Bonus", value |-> b("C")],
        [variant |-> "OutperformanceBonus", value |-> b("D")],
        [variant |-> "TwinWin", value |-> b("E")],
        [variant |-> "Other", value |-> b("M")] >>]

equities_Distribution ==
    [name |-> "equities::Distribution", idx |-> {3},
     variants |-> <<
        [variant |-> "Dividend", value |-> b("D")],
        [variant |-> "None", value |-> b("Y")],
        [variant |-> "Other", value |-> b("M")] >>]

equities_Repayment ==
    [name |-> "equities::Repayment", idx |-> {4},
     variants |-> <<
        [variant |-> "Cash", value |-> b("F")],
        [variant |-> "Physical", value |-> b("V")],
        [variant |-> "Elect", value |-> b("E")],
        [variant |-> "Other", value |-> b("M")] >>]

equities_Underlying ==
    [name |-> "equities::Underlying", idx |-> {5},
     variants |-> <<
        [variant |-> "Baskets", value |-> b("B")],
        [variant |-> "Equities", value |-> b("S")],
        [variant |-> "Debt", value |-> b("D")],
        [variant |-> "Derivatives", value |-> b("G")],
        [variant |-> "Commodities", value |-> b("T")],
        [variant |-> "Currencies", value |-> b("C")],
        [variant |-> "Indices", value |-> b("I")],
        [variant |-> "Rates", value |-> b("N")],
        [variant |-> "Other", value |-> b("M")] >>]

\* ---- debt.rs : attribute enumerations (impl_attr!) ----

debt_InterestInKindOrCash ==
    [name |-> "debt::InterestInKindOrCash", idx |-> {2},
     variants |-> <<
        [variant |-> "FixedRate", value |-> b("F")],
        [variant |-> "ZeroRate", value |-> b("Z")],
        [variant |-> "Variable", value |-> b("V")],
        [variant |-> "CashPayment", value |-> b("C")],
        [variant |-> "PaymentInKind", value |-> b("K")] >>]

debt_Guarantee ==
    [name |-> "debt::Guarantee", idx |-> {3, 4},
     variants |-> <<
        [variant |-> "Government", value |-> b("T")],
        [variant |-> "Joint", value |-> b("G")],
        [variant |-> "Secured", value |-> b("S")],
        [variant |-> "Unsecured", value |-> b("U")],
        [variant |-> "NegativePledge", value |-> b("P")],
        [variant |-> "Senior", value |-> b("N")],
        [variant |-> "SeniorSubordinated", value |-> b("O")],
        [variant |-> "Junior", value |-> b("Q")],
        [variant |-> "JuniorSubordinated", value |-> b("J")],
        [variant |-> "Supranational", value |-> b("C")] >>]

debt_Redemption ==
    [name |-> "debt::Redemption", idx |-> {4, 5},
     variants |-> <<
        [variant |-> "FixedMaturity", value |-> b("F")],
        [variant |-> "FixedWithCall", value |-> b("G")],
        [variant |-> "FixedWithPut", value |-> b("C")],
        [variant |-> "FixedWithPutAndCall", value |-> b("D")],
        [variant |-> "Amortization", value |-> b("A")],
        [variant |-> "AmortizationWithCall", value |-> b("B")],
        [variant |-> "AmortizationWithPut", value |-> b("T")],
        [variant |-> "AmortizationWithPutAndCall", value |-> b("L")],
        [variant |-> "Perpetual", value |-> b("P")],
        [variant |-> "PerpetualWithCall", value |-> b("Q")],
        [variant |-> "PerpeetualWithPut", value |-> b("R")],
        [variant |-> "Extendible", value |-> b("E")] >>]

debt_InterestInKind ==
    [name |-> "debt::InterestInKind", idx |-> {2},
     variants |-> <<
        [variant |-> "Fixed", value |-> b("F")],
        [variant |-> "Zero", value |-> b("Z")],
        [variant |-> "Variable", value |-> b("V")],
        [variant |-> "InKind", value |-> b("K")] >>]

debt_ProtectedKind ==
    [name |-> "debt::ProtectedKind", idx |-> {2},
     variants |-> <<
        [variant |-> "Participation", value |-> b("A")],
        [variant |-> "Convertible", value |-> b("B")],
        [variant |-> "Barrier", value |-> b("C")],
        [variant |-> "Coupons", value |-> b("D")],
        [variant |-> "Other", value |-> b("M")] >>]

debt_Distribution ==
    [name |-> "debt::Distribution", idx |-> {3},
     variants |-> <<
        [variant |-> "Fixed", value |-> b("F")],
        [variant |-> "Dividend", value |-> b("D")],
        [variant |-> "Variable", value |-> b("V")],
        [variant |-> "None", value |-> b("Y")],
        [variant |-> "Other", value |-> b("M")] >>]

debt_ProtectedRepayment ==
    [name |-> "debt::ProtectedRepayment", idx |-> {4},
     variants |-> <<
        [variant |-> "Fixed", value |-> b("F")],
        [variant |-> "Variable", value |-> b("V")],
        [variant |-> "Other", value |-> b("M")] >>]

debt_Underlying ==
    [name |-> "debt::Underlying", idx |-> {5},
     variants |-> <<
        [variant |-> "Basket", value |-> b("B")],
        [variant |-> "Equity", value |-> b("S")],
        [variant |-> "Debt", value |-> b("D")],
        [variant |-> "Commodity", value |-> b("T")],
        [variant |-> "Currency", value |-> b("C")],
        [variant |-> "Index", value |-> b("I")],
        [variant |-> "InterestRate", value |-> b("N")],
        [variant |-> "Other", value |-> b("M")] >>]

debt_UnprotectedKind ==
    [name |-> "debt::UnprotectedKind", idx |-> {2},
     variants |-> <<
        [variant |-> "Discount", value |-> b("A")],
        [variant |-> "BarrierDiscount", value |-> b("B")],
        [variant |-> "Reverse", value |-> b("C")],
        [variant |-> "BarrierReverse", value |-> b("D")],
        [variant |-> "Express", value |-> b("E")],
        [variant |-> "Other", value |-> b("M")] >>]

debt_UnprotectedRepayment ==
    [name |-> "debt::UnprotectedRepayment", idx |-> {4},
     variants |-> <<
        [variant |-> "Cash", value |-> b("R")],
        [variant |-> "Assets", value |-> b("S")],
        [variant |-> "AssetsAndCash", value |-> b("C")],
        [variant |-> "AssetsOrCash", value |-> b("T")],
        [variant |-> "Other", value |-> b("M")] >>]

debt_Interest ==
    [name |-> "debt::Interest", idx |-> {2},
     variants |-> <<
        [variant |-> "Fixed", value |-> b("F")],
        [variant |-> "Zero", value |-> b("Z")],
        [variant |-> "Variable", value |-> b("V")] >>]

debt_Dependency ==
    [name |-> "debt::Dependency", idx |-> {2},
     variants |-> <<
        [variant |-> "Bonds", value |-> b("B")],
        [variant |-> "Convertible", value |-> b("C")],
        [variant |-> "WarrantsAttached", value |-> b("W")],
        [variant |-> "MediumTerm", value |-> b("T")],
        [variant |-> "MoneyMarket", value |-> b("Y")],
        [variant |-> "MortgageBacked", value |-> b("G")],
        [variant |-> "AssetBacked", value |-> b("A")],
        [variant |-> "Municipal", value |-> b("N")],
        [variant |-> "Other", value |-> b("M")] >>]

debt_InterestOrCash ==
    [name |-> "debt::InterestOrCash", idx |-> {3},
     variants |-> <<
        [variant |-> "Fixed", value |-> b("F")],
        [variant |-> "Zero", value |-> b("Z")],
        [variant |-> "Variable", value |-> b("V")],
        [variant |-> "Cash", value |-> b("C")] >>]

debt_OtherKind ==
    [name |-> "debt::OtherKind", idx |-> {2},
     variants |-> <<
        [variant |-> "BankLoan", value |-> b("B")],
        [variant |-> "PromissoryNote", value |-> b("P")],
        [variant |-> "Other", value |-> b("M")] >>]

\* ---- civ.rs : attribute enumerations (impl_attr!) ----

civ_ClosedOrOpen ==
    [name |-> "civ::ClosedOrOpen", idx |-> {2},
     variants |-> <<
        [variant |-> "Closed", value |-> b("C")],
        [variant |-> "Open", value |-> b("O")],
        [variant |-> "Others", value |-> b("M")] >>]

civ_Distribution ==
    [name |-> "civ::Distribution", idx |-> {3},
     variants |-> <<
        [variant |-> "Income", value |-> b("I")],
        [variant |-> "Accumulation", value |-> b("G")],
        [variant |-> "Mixed", value |-> b("J")] >>]

civ_Assets ==
    [name |-> "civ::Assets", idx |-> {4},
     variants |-> <<
        [variant |-> "RealEstate", value |-> b("R")],
        [variant |-> "Debt", value |-> b("B")],
        [variant |-> "Equities", value |-> b("E")],
        [variant |-> "Convertibles", value |-> b("V")],
        [variant |-> "Mixed", value |-> b("L")],
        [variant |-> "Commodities", value |-> b("C")],
        [variant |-> "Derivatives", value |-> b("D")],
        [variant |-> "Referential", value |-> b("F")],
        [variant |-> "Credits", value |-> b("K")],
        [variant |-> "Others", value |-> b("M")] >>]

civ_KindAndRestrictions ==
    [name |-> "civ::KindAndRestrictions", idx |-> {5},
     variants |-> <<
        [variant |-> "Shares", value |-> b("S")],
        [variant |-> "SharesForQualified", value |-> b("Q")],
        [variant |-> "Utils", value |-> b("U")],
        [variant |-> "UnitsForQualizfied", value |-> b("Y")] >>]

civ_Strategy ==
    [name |-> "civ::Strategy", idx |-> {2},
     variants |-> <<
        [variant |-> "Directional", value |-> b("D")],
        [variant |-> "Relative", value |-> b("R")],
        [variant |-> "Selection", value |-> b("S")],
        [variant |-> "EventDriven", value |-> b("E")],
        [variant |-> "Arbitrage", value |-> b("A")],
        [variant |-> "Multi", value |-> b("N")],
        [variant |-> "Lending", value |-> b("L")],
        [variant |-> "Others", value |-> b("M")] >>]

civ_Kind ==
    [name |-> "civ::Kind", idx |-> {5},
     variants |-> <<
        [variant |-> "Shares", value |-> b("S")],
        [variant |-> "Units", value |-> b("U")] >>]

civ_Style ==
    [name |-> "civ::Style", idx |-> {3},
     variants |-> <<
        [variant |-> "Balanced", value |-> b("B")],
        [variant |-> "Growth", value |-> b("G")],
        [variant |-> "Lifestyle", value |-> b("L")],
        [variant |-> "Other", value |-> b("M")] >>]

civ_PensionKind ==
    [name |-> "civ::PensionKind", idx |-> {4},
     variants |-> <<
        [variant |-> "Benefit", value |-> b("R")],
        [variant |-> "Contribution", value |-> b("B")],
        [variant |-> "Other", value |-> b("M")] >>]

civ_FundsKind ==
    [name |-> "civ::FundsKind", idx |-> {4},
     variants |-> <<
        [variant |-> "Standard", value |-> b("I")],
        [variant |-> "Hedge", value |-> b("H")],
        [variant |-> "Reit", value |-> b("B")],
        [variant |-> "Etf", value |-> b("E")],
        [variant |-> "PrivateEquity", value |-> b("P")],
        [variant |-> "Other", value |-> b("M")] >>]

\* ---- rights.rs : attribute enumerations (impl_attr!) ----

rights_Assets ==
    [name |-> "rights::Assets", idx |-> {2},
     variants |-> <<
        [variant |-> "Common", value |-> b("S")],
        [variant |-> "Preferred", value |-> b("P")],
        [variant |-> "Convertible", value |-> b("C")],
        [variant |-> "PreferredConvertible", value |-> b("F")],
        [variant |-> "Bonds", value |-> b("B")],
        [variant |-> "Combined", value |-> b("I")],
        [variant |-> "Other", value |-> b("M")] >>]

rights_Kind ==
    [name |-> "rights::Kind", idx |-> {3},
     variants |-> <<
        [variant |-> "Traditional", value |-> b("T")],
        [variant |-> "Naked", value |-> b("N")],
        [variant |-> "Covered", value |-> b("C")] >>]

rights_CallPut ==
    [name |-> "rights::CallPut", idx |-> {4},
     variants |-> <<
        [variant |-> "Call", value |-> b("C")],
        [variant |-> "Put", value |-> b("P")],
        [variant |-> "CallAndPut", value |-> b("B")] >>]

rights_ExerciseStyle ==
    [name |-> "rights::ExerciseStyle", idx |-> {5},
     variants |-> <<
        [variant |-> "European", value |-> b("E")],
        [variant |-> "American", value |-> b("A")],
        [variant |-> "Bermudan", value |-> b("B")],
        [variant |-> "Other", value |-> b("M")] >>]

rights_FutureAsset ==
    [name |-> "rights::FutureAsset", idx |-> {2},
     variants |-> <<
        [variant |-> "Basket", value |-> b("B")],
        [variant |-> "Equity", value |-> b("S")],
        [variant |-> "Debt", value |-> b("D")],
        [variant |-> "Commodity", value |-> b("T")],
        [variant |-> "Currency", value |-> b("C")],
        [variant |-> "Index", value |-> b("I")],
        [variant |-> "Other", value |-> b("M")] >>]

rights_Barrier ==
    [name |-> "rights::Barrier", idx |-> {3},
     variants |-> <<
        [variant |-> "Underlying", value |-> b("T")],
        [variant |-> "Instrument", value |-> b("N")],
        [variant |-> "Other", value |-> b("M")] >>]

rights_LongShort ==
    [name |-> "rights::LongShort", idx |-> {4},
     variants |-> <<
        [variant |-> "Long", value |-> b("C")],
        [variant |-> "Short", value |-> b("P")],
        [variant |-> "Other", value |-> b("M")] >>]

rights_Dependency ==
    [name |-> "rights::Dependency", idx |-> {2},
     variants |-> <<
        [variant |-> "Allotment", value |-> b("A")],
        [variant |-> "Subscription", value |-> b("S")],
        [variant |-> "Purchase", value |-> b("P")],
        [variant |-> "Warrant", value |-> b("W")],
        [variant |-> "Other", value |-> b("M")] >>]

\* ---- options.rs : attribute enumerations (impl_attr!) ----

options_ExerciseStyle ==
    [name |-> "options::ExerciseStyle", idx |-> {2},
     variants |-> <<
        [variant |-> "European", value |-> b("E")],
        [variant |-> "American", value |-> b("A")],
        [variant |-> "Bermudan", value |-> b("B")] >>]

options_Underlying ==
    [name |-> "options::Underlying", idx |-> {3},
     variants |-> <<
        [variant |-> "Basket", value |-> b("B")],
        [variant |-> "Stock", value |-> b("S")],
        [variant |-> "Debt", value |-> b("D")],
        [variant |-> "Commodity", value |-> b("T")],
        [variant |-> "Currency", value |-> b("C")],
        [variant |-> "Index", value |-> b("I")],
        [variant |-> "Option", value |-> b("O")],
        [variant |-> "Future", value |-> b("F")],
        [variant |-> "Swap", value |-> b("W")],
        [variant |-> "InterestRate", value |-> b("N")],
        [variant |-> "Other", value |-> b("M")] >>]

options_Delivery ==
    [name |-> "options::Delivery", idx |-> {4},
     variants |-> <<
        [variant |-> "Physical", value |-> b("P")],
        [variant |-> "Cash", value |-> b("C")],
        [variant |-> "NonDeliverable", value |-> b("N")],
        [variant |-> "ElectAtExercise", value |-> b("E")] >>]

options_RateUnderlying ==
    [name |-> "options::RateUnderlying", idx |-> {2},
     variants |-> <<
        [variant |-> "Basis", value |-> b("A")],
        [variant |-> "FixedFloating", value |-> b("C")],
        [variant |-> "FixedFixed", value |-> b("D")],
        [variant |-> "Interest", value |-> b("E")],
        [variant |-> "Inflation", value |-> b("I")],
        [variant |-> "Qis", value |-> b("H")],
        [variant |-> "Option", value |-> b("O")],
        [variant |-> "Forwards", value |-> b("R")],
        [variant |-> "Futures", value |-> b("F")],
        [variant |-> "Other", value |-> b("M")] >>]

options_UnlistedStyle ==
    [name |-> "options::UnlistedStyle", idx |-> {3},
     variants |-> <<
        [variant |-> "EuropeanCall", value |-> b("A")],
        [variant |-> "AmericanCall", value |-> b("B")],
        [variant |-> "BermudanCall", value |-> b("C")],
        [variant |-> "EuropeanPut", value |-> b("D")],
        [variant |-> "AmericanPut", value |-> b("E")],
        [variant |-> "BermudanPut", value |-> b("F")],
        [variant |-> "EuropeanChooser", value |-> b("G")],
        [variant |-> "AmericanChooser", value |-> b("H")],
        [variant |-> "BermudanChooser", value |-> b("I")] >>]

options_RateValuation ==
    [name |-> "options::RateValuation", idx |-> {4},
     variants |-> <<
        [variant |-> "Vanilla", value |-> b("V")],
        [variant |-> "Asian", value |-> b("A")],
        [variant |-> "Digital", value |-> b("D")],
        [variant |-> "Barrier", value |-> b("B")],
        [variant |-> "DigitalBarrier", value |-> b("G")],
        [variant |-> "Lookback", value |-> b("L")],
        [variant |-> "PathDependent", value |-> b("P")],
        [variant |-> "Cap", value |-> b("C")],
        [variant |-> "Floor", value |-> b("F")],
        [variant |-> "Other", value |-> b("M")] >>]

options_UnlistedDelivery ==
    [name |-> "options::UnlistedDelivery", idx |-> {5},
     variants |-> <<
        [variant |-> "Cash", value |-> b("C")],
        [variant |-> "Physical", value |-> b("P")],
        [variant |-> "ElectAtSettlement", value |-> b("E")] >>]

options_CommodityUnderlying ==
    [name |-> "options::CommodityUnderlying", idx |-> {2},
     variants |-> <<
        [variant |-> "Energy", value |-> b("J")],
        [variant |-> "Metals", value |-> b("K")],
        [variant |-> "Agriculture", value |-> b("A")],
        [variant |-> "Environmental", value |-> b("N")],
        [variant |-> "Freight", value |-> b("G")],
        [variant |-> "Polypropylene", value |-> b("P")],
        [variant |-> "Fertilizer", value |-> b("S")],
        [variant |-> "Paper", value |-> b("T")],
        [variant |-> "SingleIndex", value |-> b("I")],
        [variant |-> "MultiIndex", value |-> b("H")],
        [variant |-> "SingleBasket", value |-> b("B")],
        [variant |-> "MultiBasket", value |-> b("C")],
        [variant |-> "Options", value |-> b("O")],
        [variant |-> "Forwards", value |-> b("R")],
        [variant |-> "Swaps", value |-> b("W")],
        [variant |-> "Other", value |-> b("M")] >>]

options_UnlistedValuation ==
    [name |-> "options::UnlistedValuation", idx |-> {4},
     variants |-> <<
        [variant |-> "Vanilla", value |-> b("V")],
        [variant |-> "Asian", value |-> b("A")],
        [variant |-> "Digital", value |-> b("D")],
        [variant |-> "Barrier", value |-> b("B")],
        [variant |-> "DigitalBarrier", value |-> b("G")],
        [variant |-> "Lookback", value |-> b("L")],
        [variant |-> "PathDependent", value |-> b("P")],
        [variant |-> "Other", value |-> b("M")] >>]

options_EquityUnderlying ==
    [name |-> "options::EquityUnderlying", idx |-> {2},
     variants |-> <<
        [variant |-> "Stock", value |-> b("S")],
        [variant |-> "Index", value |-> b("I")],
        [variant |-> "Basket", value |-> b("B")],
        [variant |-> "Option", value |-> b("O")],
        [variant |-> "Forward", value |-> b("R")],
        [variant |-> "Future", value |-> b("F")],
        [variant |-> "Other", value |-> b("M")] >>]

options_CreditUnderlying ==
    [name |-> "options::CreditUnderlying", idx |-> {2},
     variants |-> <<
        [variant |-> "SingleName", value |-> b("U")],
        [variant |-> "IndexTranche", value |-> b("V")],
        [variant |-> "Index", value |-> b("I")],
        [variant |-> "Swap", value |-> b("W")],
        [variant |-> "Other", value |-> b("M")] >>]

options_ForexUnderlying ==
    [name |-> "options::ForexUnderlying", idx |-> {2},
     variants |-> <<
        [variant |-> "PairForward", value |-> b("R")],
        [variant |-> "PairFuture", value |-> b("F")],
        [variant |-> "PairSpot", value |-> b("T")],
        [variant |-> "PairVolatility", value |-> b("V")],
        [variant |-> "IndexForward", value |-> b("B")],
        [variant |-> "IndexFuture", value |-> b("C")],
        [variant |-> "IndexSpot", value |-> b("D")],
        [variant |-> "IndexVolatility", value |-> b("E")],
        [variant |-> "BasketForward", value |-> b("Q")],
        [variant |-> "BasketFuture", value |-> b("U")],
        [variant |-> "BasketSpot", value |-> b("W")],
        [variant |-> "BasketVolatility", value |-> b("Y")],
        [variant |-> "Other", value |-> b("M")] >>]

options_UnlistedExerciseStyle ==
    [name |-> "options::UnlistedExerciseStyle", idx |-> {3},
     variants |-> <<
        [variant |-> "European", value |-> b("J")],
        [variant |-> "American", value |-> b("K")],
        [variant |-> "Bermudan", value |-> b("L")] >>]

options_OtherUnderlying ==
    [name |-> "options::OtherUnderlying", idx |-> {2},
     variants |-> <<
        [variant |-> "Commercial", value |-> b("P")],
        [variant |-> "Other", value |-> b("M")] >>]

options_OtherDelivery ==
    [name |-> "options::OtherDelivery", idx |-> {5},
     variants |-> <<
        [variant |-> "Cash", value |-> b("C")],
        [variant |-> "Physical", value |-> b("P")],
        [variant |-> "ElectAtExercise", value |-> b("E")],
        [variant |-> "NonDeliverable", value |-> b("N")],
        [variant |-> "Auction", value |-> b("A")] >>]

\* ---- futures.rs : attribute enumerations (impl_attr!) ----

futures_UnderlyingFinancial ==
    [name |-> "futures::UnderlyingFinancial", idx |-> {2},
     variants |-> <<
        [variant |-> "Baskets", value |-> b("B")],
        [variant |-> "Stock", value |-> b("S")],
        [variant |-> "Debt", value |-> b("D")],
        [variant |-> "Currency", value |-> b("C")],
        [variant |-> "Index", value |-> b("I")],
        [variant |-> "Option", value |-> b("O")],
        [variant |-> "Future", value |-> b("F")],
        [variant |-> "Swaps", value |-> b("W")],
        [variant |-> "InterestRate", value |-> b("N")],
        [variant |-> "StockDividends", value |-> b("V")],
        [variant |-> "Other", value |-> b("M")] >>]

futures_Delivery ==
    [name |-> "futures::Delivery", idx |-> {3},
     variants |-> <<
        [variant |-> "Physical", value |-> b("P")],
        [variant |-> "Cash", value |-> b("C")],
        [variant |-> "NonDeliverable", value |-> b("N")] >>]

futures_UnderlyingCommodity ==
    [name |-> "futures::UnderlyingCommodity", idx |-> {2},
     variants |-> <<
        [variant |-> "Extraction", value |-> b("E")],
        [variant |-> "Agriculture", value |-> b("A")],
        [variant |-> "Industrial", value |-> b("I")],
        [variant |-> "Services", value |-> b("S")],
        [variant |-> "Environmental", value |-> b("N")],
        [variant |-> "Polypropylene", value |-> b("P")],
        [variant |-> "Generated", value |-> b("H")],
        [variant |-> "Other", value |-> b("M")] >>]

\* ---- swaps.rs : attribute enumerations (impl_attr!) ----

swaps_RateUnderlying ==
    [name |-> "swaps::RateUnderlying", idx |-> {2},
     variants |-> <<
        [variant |-> "Basis", value |-> b("A")],
        [variant |-> "FixedFloating", value |-> b("C")],
        [variant |-> "FixedFixed", value |-> b("D")],
        [variant |-> "Inflation", value |-> b("G")],
        [variant |-> "OvernightIndex", value |-> b("H")],
        [variant |-> "ZeroCoupon", value |-> b("Z")],
        [variant |-> "Other", value |-> b("M")] >>]

swaps_Notional ==
    [name |-> "swaps::Notional", idx |-> {3},
     variants |-> <<
        [variant |-> "Constant", value |-> b("C")],
        [variant |-> "Acreting", value |-> b("I")],
        [variant |-> "Amortizing", value |-> b("D")],
        [variant |-> "Custom", value |-> b("Y")] >>]

swaps_RateCurrency ==
    [name |-> "swaps::RateCurrency", idx |-> {4},
     variants |-> <<
        [variant |-> "Single", value |-> b("S")],
        [variant |-> "Cross", value |-> b("C")] >>]

swaps_RateDelivery ==
    [name |-> "swaps::RateDelivery", idx |-> {5},
     variants |-> <<
        [variant |-> "Deliverable", value |-> b("D")],
        [variant |-> "NonDeliverable", value |-> b("N")] >>]

swaps_CommodityUnderlying ==
    [name |-> "swaps::CommodityUnderlying", idx |-> {2},
     variants |-> <<
        [variant |-> "Energy", value |-> b("J")],
        [variant |-> "Metals", value |-> b("K")],
        [variant |-> "Agriculture", value |-> b("A")],
        [variant |-> "Environmental", value |-> b("N")],
        [variant |-> "Freight", value |-> b("G")],
        [variant |-> "Polypropylene", value |-> b("P")],
        [variant |-> "Fertilizer", value |-> b("S")],
        [variant |-> "Paper", value |-> b("T")],
        [variant |-> "SingleIndex", value |-> b("I")],
        [variant |-> "MultiIndex", value |-> b("H")],
        [variant |-> "SingleBasket", value |-> b("B")],
        [variant |-> "MultiBasket", value |-> b("C")],
        [variant |-> "Multi", value |-> b("Q")],
        [variant |-> "Other", value |-> b("M")] >>]

swaps_CommodityPayout ==
    [name |-> "swaps::CommodityPayout", idx |-> {3},
     variants |-> <<
        [variant |-> "Cfd", value |-> b("C")],
        [variant |-> "TotalReturn", value |-> b("T")] >>]

swaps_CommodityDelivery ==
    [name |-> "swaps::CommodityDelivery", idx |-> {5},
     variants |-> <<
        [variant |-> "Cash", value |-> b("C")],
        [variant |-> "Physical", value |-> b("P")],
        [variant |-> "ElectAtSettlement", value |-> b("E")] >>]

swaps_EquityUnderlying ==
    [name |-> "swaps::EquityUnderlying", idx |-> {2},
     variants |-> <<
        [variant |-> "Single", value |-> b("S")],
        [variant |-> "Index", value |-> b("I")],
        [variant |-> "Basket", value |-> b("B")],
        [variant |-> "Other", value |-> b("M")] >>]

swaps_EquityPayout ==
    [name |-> "swaps::EquityPayout", idx |-> {3},
     variants |-> <<
        [variant |-> "Price", value |-> b("P")],
        [variant |-> "Dividend", value |-> b("D")],
        [variant |-> "Variance", value |-> b("V")],
        [variant |-> "Volatility", value |-> b("L")],
        [variant |-> "TotalReturn", value |-> b("T")],
        [variant |-> "Cfd", value |-> b("C")],
        [variant |-> "Other", value |-> b("M")] >>]

swaps_EquityDelivery ==
    [name |-> "swaps::EquityDelivery", idx |-> {5},
     variants |-> <<
        [variant |-> "Cash", value |-> b("C")],
        [variant |-> "Physical", value |-> b("P")],
        [variant |-> "ElectAtSettlement", value |-> b("E")] >>]

swaps_CreditUnderlying ==
    [name |-> "swaps::CreditUnderlying", idx |-> {2},
     variants |-> <<
        [variant |-> "Single", value |-> b("U")],
        [variant |-> "IndexTranche", value |-> b("V")],
        [variant |-> "Index", value |-> b("I")],
        [variant |-> "Basket", value |-> b("B")],
        [variant |-> "Other", value |-> b("M")] >>]

swaps_CreditPayout ==
    [name |-> "swaps::CreditPayout", idx |-> {3},
     variants |-> <<
        [variant |-> "Default", value |-> b("C")],
        [variant |-> "TotalReturn", value |-> b("T")],
        [variant |-> "Other", value |-> b("M")] >>]

swaps_CreditIssuer ==
    [name |-> "swaps::CreditIssuer", idx |-> {4},
     variants |-> <<
        [variant |-> "Corporate", value |-> b("C")],
        [variant |-> "Sovereign", value |-> b("S")],
        [variant |-> "Local", value |-> b("L")] >>]

swaps_CreditDelivery ==
    [name |-> "swaps::CreditDelivery", idx |-> {5},
     variants |-> <<
        [variant |-> "Cash", value |-> b("C")],
        [variant |-> "Physical", value |-> b("P")],
        [variant |-> "Auction", value |-> b("A")] >>]

swaps_ForexUnderlying ==
    [name |-> "swaps::ForexUnderlying", idx |-> {2},
     variants |-> <<
        [variant |-> "SpotForward", value |-> b("A")],
        [variant |-> "ForwardForward", value |-> b("C")],
        [variant |-> "Other", value |-> b("M")] >>]

swaps_ForexDelivery ==
    [name |-> "swaps::ForexDelivery", idx |-> {5},
     variants |-> <<
        [variant |-> "Physical", value |-> b("P")],
        [variant |-> "Cash", value |-> b("C")] >>]

swaps_OtherUnderlying ==
    [name |-> "swaps::OtherUnderlying", idx |-> {2},
     variants |-> <<
        [variant |-> "CommercialProperty", value |-> b("P")],
        [variant |-> "Other", value |-> b("M")] >>]

swaps_OtherDelivery ==
    [name |-> "swaps::OtherDelivery", idx |-> {5},
     variants |-> <<
        [variant |-> "Cash", value |-> b("C")],
        [variant |-> "Physical", value |-> b("P")],
        [variant |-> "ElectAtSettlement", value |-> b("E")] >>]

\* ---- equities.rs : groups (impl_group!) ----

equities_Common ==
    [name |-> "equities::Common",
     members |-> <<
        [member |-> "voting_right", ty |-> equities_VotingRight, offset |-> 1],
        [member |-> "ownership", ty |-> equities_Ownership, offset |-> 2],
        [member |-> "payment_status", ty |-> equities_PaymentStatus, offset |-> 3],
        [member |-> "form", ty |-> Form, offset |-> 4] >>]

equities_Preferred ==
    [name |-> "equities::Preferred",
     members |-> <<
        [member |-> "voting_right", ty |-> equities_VotingRight, offset |-> 1],
        [member |-> "redemption", ty |-> equities_Redemption, offset |-> 2],
        [member |-> "income", ty |-> equities_Income, offset |-> 3],
        [member |-> "form", ty |-> Form, offset |-> 4] >>]

equities_Convertible ==
    [name |-> "equities::Convertible",
     members |-> <<
        [member |-> "voting_right", ty |-> equities_VotingRight, offset |-> 1],
        [member |-> "ownership", ty |-> equities_Ownership, offset |-> 2],
        [member |-> "payment_status", ty |-> equities_PaymentStatus, offset |-> 3],
        [member |-> "form", ty |-> Form, offset |-> 4] >>]

equities_PreferredConvertible ==
    [name |-> "equities::PreferredConvertible",
     members |-> <<
        [member |-> "voting_right", ty |-> equities_VotingRight, offset |-> 1],
        [member |-> "redemption", ty |-> equities_Redemption, offset |-> 2],
        [member |-> "income", ty |-> equities_Income, offset |-> 3],
        [member |-> "form", ty |-> Form, offset |-> 4] >>]

equities_LlpUnit ==
    [name |-> "equities::LlpUnit",
     members |-> <<
        [member |-> "voting_right", ty |-> equities_VotingRight, offset |-> 1],
        [member |-> "ownership", ty |-> equities_Ownership, offset |-> 2],
        [member |-> "payment_status", ty |-> equities_PaymentStatus, offset |-> 3],
        [member |-> "form", ty |-> Form, offset |-> 4] >>]

equities_DepositoryReceipt ==
    [name |-> "equities::DepositoryReceipt",
     members |-> <<
        [member |-> "dependency", ty |-> equities_Dependency, offset |-> 1],
        [member |-> "redemption", ty |-> equities_RedemptionConversion, offset |-> 2],
        [member |-> "income", ty |-> equities_Income, offset |-> 3],
        [member |-> "form", ty |-> Form, offset |-> 4] >>]

equities_Structured ==
    [name |-> "equities::Structured",
     members |-> <<
        [member |-> "kind", ty |-> equities_Kind, offset |-> 1],
        [member |-> "distribution", ty |-> equities_Distribution, offset |-> 2],
        [member |-> "repayment", ty |-> equities_Repayment, offset |-> 3],
        [member |-> "underlying", ty |-> equities_Underlying, offset |-> 4] >>]

equities_Other ==
    [name |-> "equities::Other",
     members |-> <<
        [member |-> "attr1", ty |-> NotApplicable, offset |-> 1],
        [member |-> "attr2", ty |-> NotApplicable, offset |-> 2],
        [member |-> "attr3", ty |-> NotApplicable, offset |-> 3],
        [member |-> "form", ty |-> Form, offset |-> 4] >>]

\* ---- equities.rs : categories (impl_category!) ----

equities_Equity ==
    [name |-> "equities::Equity",
     variants |-> <<
        [variant |-> "Common", data |-> equities_Common, value |-> b("S")],
        [variant |-> "Preferred", data |-> equities_Preferred, value |-> b("P")],
        [variant |-> "Convertible", data |-> equities_Convertible, value |-> b("C")],
        [variant |-> "PreferedConvertible", data |-> equities_PreferredConvertible, value |-> b("F")],
        [variant |-> "LlpUnit", data |-> equities_LlpUnit, value |-> b("L")],
        [variant |-> "DepositoryReceipt", data |-> equities_DepositoryReceipt, value |-> b("D")],
        [variant |-> "Structured", data |-> equities_Structured, value |-> b("Y")],
        [variant |-> "Other", data |-> equities_Other, value |-> b("M")] >>]

\* ---- debt.rs : groups (impl_group!) ----

debt_Bond ==
    [name |-> "debt::Bond",
     members |-> <<
        [member |-> "kind", ty |-> debt_InterestInKindOrCash, offset |-> 1],
        [member |-> "guarantee", ty |-> debt_Guarantee, offset |-> 2],
        [member |-> "redemption", ty |-> debt_Redemption, offset |-> 3],
        [member |-> "form", ty |-> Form, offset |-> 4] >>]

debt_Convertible ==
    [name |-> "debt::Convertible",
     members |-> <<
        [member |-> "interest", ty |-> debt_InterestInKind, offset |-> 1],
        [member |-> "guarantee", ty |-> debt_Guarantee, offset |-> 2],
        [member |-> "redemption", ty |-> debt_Redemption, offset |-> 3],
        [member |-> "form", ty |-> Form, offset |-> 4] >>]

debt_WarrantAttached ==
    [name |-> "debt::WarrantAttached",
     members |-> <<
        [member |-> "interest", ty |-> debt_InterestInKind, offset |-> 1],
        [member |-> "guarantee", ty |-> debt_Guarantee, offset |-> 2],
        [member |-> "redemption", ty |-> debt_Redemption, offset |-> 3],
        [member |-> "form", ty |-> Form, offset |-> 4] >>]

debt_MediumTerm ==
    [name |-> "debt::MediumTerm",
     members |-> <<
        [member |-> "interest", ty |-> debt_InterestInKind, offset |-> 1],
        [member |-> "guarantee", ty |-> debt_Guarantee, offset |-> 2],
        [member |-> "redemption", ty |-> debt_Redemption, offset |-> 3],
        [member |-> "form", ty |-> Form, offset |-> 4] >>]

debt_MoneyMarket ==
    [name |-> "debt::MoneyMarket",
     members |-> <<
        [member |-> "interest", ty |-> debt_InterestInKind, offset |-> 1],
        [member |-> "guarantee", ty |-> debt_Guarantee, offset |-> 2],
        [member |-> "attr3", ty |-> NotApplicable, offset |-> 3],
        [member |-> "form", ty |-> Form, offset |-> 4] >>]

debt_ProtectedStructured ==
    [name |-> "debt::ProtectedStructured",
     members |-> <<
        [member |-> "kind", ty |-> debt_ProtectedKind, offset |-> 1],
        [member |-> "distribution", ty |-> debt_Distribution, offset |-> 2],
        [member |-> "repayment", ty |-> debt_ProtectedRepayment, offset |-> 3],
        [member |-> "underlying", ty |-> debt_Underlying, offset |-> 4] >>]

debt_UnprotectedStructured ==
    [name |-> "debt::UnprotectedStructured",
     members |-> <<
        [member |-> "kind", ty |-> debt_UnprotectedKind, offset |-> 1],
        [member |-> "distribution", ty |-> debt_Distribution, offset |-> 2],
        [member |-> "repayment", ty |-> debt_UnprotectedRepayment, offset |-> 3],
        [member |-> "underlying", ty |-> debt_Underlying, offset |-> 4] >>]

debt_MortgageBacked ==
    [name |-> "debt::MortgageBacked",
     members |-> <<
        [member |-> "interest", ty |-> debt_Interest, offset |-> 1],
        [member |-> "guarantee", ty |-> debt_Guarantee, offset |-> 2],
        [member |-> "redemption", ty |-> debt_Redemption, offset |-> 3],
        [member |-> "form", ty |-> Form, offset |-> 4] >>]

debt_AssetBacked ==
    [name |-> "debt::AssetBacked",
     members |-> <<
        [member |-> "interest", ty |-> debt_Interest, offset |-> 1],
        [member |-> "guarantee", ty |-> debt_Guarantee, offset |-> 2],
        [member |-> "redemption", ty |-> debt_Redemption, offset |-> 3],
        [member |-> "form", ty |-> Form, offset |-> 4] >>]

debt_Municipal ==
    [name |-> "debt::Municipal",
     members |-> <<
        [member |-> "interest", ty |-> debt_Interest, offset |-> 1],
        [member |-> "guarantee", ty |-> debt_Guarantee, offset |-> 2],
        [member |-> "redemption", ty |-> debt_Redemption, offset |-> 3],
        [member |-> "form", ty |-> Form, offset |-> 4] >>]

debt_Depository ==
    [name |-> "debt::Depository",
     members |-> <<
        [member |-> "dependency", ty |-> debt_Dependency, offset |-> 1],
        [member |-> "interest", ty |-> debt_InterestOrCash, offset |-> 2],
        [member |-> "guarantee", ty |-> debt_Guarantee, offset |-> 3],
        [member |-> "redemption", ty |-> debt_Redemption, offset |-> 4] >>]

debt_Other ==
    [name |-> "debt::Other",
     members |-> <<
        [member |-> "kind", ty |-> debt_OtherKind, offset |-> 1],
        [member |-> "attr2", ty |-> NotApplicable, offset |-> 2],
        [member |-> "attr3", ty |-> NotApplicable, offset |-> 3],
        [member |-> "form", ty |-> Form, offset |-> 4] >>]

\* ---- debt.rs : categories (impl_category!) ----

debt_Debt ==
    [name |-> "debt::Debt",
     variants |-> <<
        [variant |-> "Bond", data |-> debt_Bond, value |-> b("B")],
        [variant |-> "Convertible", data |-> debt_Convertible, value |-> b("C")],
        [variant |-> "WarrantAttached", data |-> debt_WarrantAttached, value |-> b("W")],
        [variant |-> "MediumTerm", data |-> debt_MediumTerm, value |-> b("T")],
        [variant |-> "MoneyMarket", data |-> debt_MoneyMarket, value |-> b("Y")],
        [variant |-> "ProtectedStructured", data |-> debt_ProtectedStructured, value |-> b("S")],
        [variant |-> "UnprotectedStructured", data |-> debt_UnprotectedStructured, value |-> b("E")],
        [variant |-> "MortgageBacked", data |-> debt_MortgageBacked, value |-> b("G")],
        [variant |-> "AssetBacked", data |-> debt_AssetBacked, value |-> b("A")],
        [variant |-> "Municipal", data |-> debt_Municipal, value |-> b("N")],
        [variant |-> "Depository", data |-> debt_Depository, value |-> b("D")],
        [variant |-> "Other", data |-> debt_Other, value |-> b("M")] >>]

\* ---- civ.rs : groups (impl_group!) ----

civ_Standard ==
    [name |-> "civ::Standard",
     members |-> <<
        [member |-> "closed_or_open", ty |-> civ_ClosedOrOpen, offset |-> 1],
        [member |-> "distribution", ty |-> civ_Distribution, offset |-> 2],
        [member |-> "assets", ty |-> civ_Assets, offset |-> 3],
        [member |-> "security_kind", ty |-> civ_KindAndRestrictions, offset |-> 4] >>]

civ_Hedge ==
    [name |-> "civ::Hedge",
     members |-> <<
        [member |-> "strategy", ty |-> civ_Strategy, offset |-> 1],
        [member |-> "attr2", ty |-> NotApplicable, offset |-> 2],
        [member |-> "attr3", ty |-> NotApplicable, offset |-> 3],
        [member |-> "attr4", ty |-> NotApplicable, offset |-> 4] >>]

civ_Reit ==
    [name |-> "civ::Reit",
     members |-> <<
        [member |-> "closed_or_open", ty |-> civ_ClosedOrOpen, offset |-> 1],
        [member |-> "distribution", ty |-> civ_Distribution, offset |-> 2],
        [member |-> "undefined3", ty |-> NotApplicable, offset |-> 3],
        [member |-> "security_kind", ty |-> civ_KindAndRestrictions, offset |-> 4] >>]

civ_Etf ==
    [name |-> "civ::Etf",
     members |-> <<
        [member |-> "closed_or_open", ty |-> civ_ClosedOrOpen, offset |-> 1],
        [member |-> "distribution", ty |-> civ_Distribution, offset |-> 2],
        [member |-> "underlying", ty |-> civ_Assets, offset |-> 3],
        [member |-> "security_kind", ty |-> civ_Kind, offset |-> 4] >>]

civ_Pension ==
    [name |-> "civ::Pension",
     members |-> <<
        [member |-> "closed_or_open", ty |-> civ_ClosedOrOpen, offset |-> 1],
        [member |-> "style", ty |-> civ_Style, offset |-> 2],
        [member |-> "kind", ty |-> civ_PensionKind, offset |-> 3],
        [member |-> "security_kind", ty |-> civ_Kind, offset |-> 4] >>]

civ_FundOfFunds ==
    [name |-> "civ::FundOfFunds",
     members |-> <<
        [member |-> "closed_or_open", ty |-> civ_ClosedOrOpen, offset |-> 1],
        [member |-> "distribution", ty |-> civ_Distribution, offset |-> 2],
        [member |-> "funds_kind", ty |-> civ_FundsKind, offset |-> 3],
        [member |-> "kind", ty |-> civ_KindAndRestrictions, offset |-> 4] >>]

civ_PrivateEquity ==
    [name |-> "civ::PrivateEquity",
     members |-> <<
        [member |-> "closed_or_open", ty |-> civ_ClosedOrOpen, offset |-> 1],
        [member |-> "distribution", ty |-> civ_Distribution, offset |-> 2],
        [member |-> "assets", ty |-> civ_Assets, offset |-> 3],
        [member |-> "kind", ty |-> civ_KindAndRestrictions, offset |-> 4] >>]

civ_Other ==
    [name |-> "civ::Other",
     members |-> <<
        [member |-> "undefined1", ty |-> NotApplicable, offset |-> 1],
        [member |-> "undefined2", ty |-> NotApplicable, offset |-> 2],
        [member |-> "undefined3", ty |-> NotApplicable, offset |-> 3],
        [member |-> "kind", ty |-> civ_KindAndRestrictions, offset |-> 4] >>]

\* ---- civ.rs : categories (impl_category!) ----

civ_Civ ==
    [name |-> "civ::Civ",
     variants |-> <<
        [variant |-> "Standard", data |-> civ_Standard, value |-> b("I")],
        [variant |-> "Hedge", data |-> civ_Hedge, value |-> b("H")],
        [variant |-> "Reit", data |-> civ_Reit, value |-> b("B")],
        [variant |-> "Etf", data |-> civ_Etf, value |-> b("E")],
        [variant |-> "Pension", data |-> civ_Pension, value |-> b("S")],
        [variant |-> "FundOfFunds", data |-> civ_FundOfFunds, value |-> b("F")],
        [variant |-> "PrivateEquity", data |-> civ_PrivateEquity, value |-> b("P")],
        [variant |-> "Other", data |-> civ_Other, value |-> b("M")] >>]

\* ---- rights.rs : groups (impl_group!) ----

rights_Allotment ==
    [name |-> "rights::Allotment",
     members |-> <<
        [member |-> "unassigned1", ty |-> NotApplicable, offset |-> 1],
        [member |-> "unassigned2", ty |-> NotApplicable, offset |-> 2],
        [member |-> "unassigned3", ty |-> NotApplicable, offset |-> 3],
        [member |-> "form", ty |-> Form, offset |-> 4] >>]

rights_Subscription ==
    [name |-> "rights::Subscription",
     members |-> <<
        [member |-> "assets", ty |-> rights_Assets, offset |-> 1],
        [member |-> "unassigned2", ty |-> NotApplicable, offset |-> 2],
        [member |-> "unassigned3", ty |-> NotApplicable, offset |-> 3],
        [member |-> "form", ty |-> Form, offset |-> 4] >>]

rights_Purchase ==
    [name |-> "rights::Purchase",
     members |-> <<
        [member |-> "assets", ty |-> rights_Assets, offset |-> 1],
        [member |-> "undefined2", ty |-> NotApplicable, offset |-> 2],
        [member |-> "undefined3", ty |-> NotApplicable, offset |-> 3],
        [member |-> "form", ty |-> Form, offset |-> 4] >>]

rights_Warrant ==
    [name |-> "rights::Warrant",
     members |-> <<
        [member |-> "asset", ty |-> rights_Assets, offset |-> 1],
        [member |-> "kind", ty |-> rights_Kind, offset |-> 2],
        [member |-> "call_put", ty |-> rights_CallPut, offset |-> 3],
        [member |-> "exercise_style", ty |-> rights_ExerciseStyle, offset |-> 4] >>]

rights_MiniFuture ==
    [name |-> "rights::MiniFuture",
     members |-> <<
        [member |-> "asset", ty |-> rights_FutureAsset, offset |-> 1],
        [member |-> "barrier", ty |-> rights_Barrier, offset |-> 2],
        [member |-> "long_short", ty |-> rights_LongShort, offset |-> 3],
        [member |-> "exercise_style", ty |-> rights_ExerciseStyle, offset |-> 4] >>]

rights_DepositoryReceipt ==
    [name |-> "rights::DepositoryReceipt",
     members |-> <<
        [member |-> "dependency", ty |-> rights_Dependency, offset |-> 1],
        [member |-> "undefined2", ty |-> NotApplicable, offset |-> 2],
        [member |-> "undefined3", ty |-> NotApplicable, offset |-> 3],
        [member |-> "form", ty |-> Form, offset |-> 4] >>]

rights_Other ==
    [name |-> "rights::Other",
     members |-> <<
        [member |-> "undefined1", ty |-> NotApplicable, offset |-> 1],
        [member |-> "undefined2", ty |-> NotApplicable, offset |-> 2],
        [member |-> "undefined3", ty |-> NotApplicable, offset |-> 3],
        [member |-> "undefined4", ty |-> NotApplicable, offset |-> 4] >>]

\* ---- rights.rs : categories (impl_category!) ----

rights_Right ==
    [name |-> "rights::Right",
     variants |-> <<
        [variant |-> "Allotment", data |-> rights_Allotment, value |-> b("A")],
        [variant |-> "Subscription", data |-> rights_Subscription, value |-> b("S")],
        [variant |-> "Purchase", data |-> rights_Purchase, value |-> b("P")],
        [variant |-> "Warrant", data |-> rights_Warrant, value |-> b("W")],
        [variant |-> "MiniFuture", data |-> rights_MiniFuture, value |-> b("F")],
        [variant |-> "DepositoryReceipt", data |-> rights_DepositoryReceipt, value |-> b("D")],
        [variant |-> "Other", data |-> rights_Other, value |-> b("M")] >>]

\* ---- options.rs : groups (impl_group!) ----

options_Call ==
    [name |-> "options::Call",
     members |-> <<
        [member |-> "exercise_style", ty |-> options_ExerciseStyle, offset |-> 1],
        [member |-> "underlying", ty |-> options_Underlying, offset |-> 2],
        [member |-> "delivery", ty |-> options_Delivery, offset |-> 3],
        [member |-> "standardized", ty |-> Standardized, offset |-> 4] >>]

options_Put ==
    [name |-> "options::Put",
     members |-> <<
        [member |-> "exercise_style", ty |-> options_ExerciseStyle, offset |-> 1],
        [member |-> "underlying", ty |-> options_Underlying, offset |-> 2],
        [member |-> "delivery", ty |-> options_Delivery, offset |-> 3],
        [member |-> "standardized", ty |-> Standardized, offset |-> 4] >>]

options_OtherListed ==
    [name |-> "options::OtherListed",
     members |-> <<
        [member |-> "undefined1", ty |-> NotApplicable, offset |-> 1],
        [member |-> "undefined2", ty |-> NotApplicable, offset |-> 2],
        [member |-> "undefined3", ty |-> NotApplicable, offset |-> 3],
        [member |-> "undefined4", ty |-> NotApplicable, offset |-> 4] >>]

options_Rate ==
    [name |-> "options::Rate",
     members |-> <<
        [member |-> "underlying", ty |-> options_RateUnderlying, offset |-> 1],
        [member |-> "style", ty |-> options_UnlistedStyle, offset |-> 2],
        [member |-> "valuation", ty |-> options_RateValuation, offset |-> 3],
        [member |-> "delivery", ty |-> options_UnlistedDelivery, offset |-> 4] >>]

options_Commodity ==
    [name |-> "options::Commodity",
     members |-> <<
        [member |-> "underlying", ty |-> options_CommodityUnderlying, offset |-> 1],
        [member |-> "style", ty |-> options_UnlistedStyle, offset |-> 2],
        [member |-> "valuation", ty |-> options_UnlistedValuation, offset |-> 3],
        [member |-> "delivery", ty |-> options_UnlistedDelivery, offset |-> 4] >>]

options_Equity ==
    [name |-> "options::Equity",
     members |-> <<
        [member |-> "underlying", ty |-> options_EquityUnderlying, offset |-> 1],
        [member |-> "style", ty |-> options_UnlistedStyle, offset |-> 2],
        [member |-> "valuation", ty |-> options_UnlistedValuation, offset |-> 3],
        [member |-> "delivery", ty |-> options_UnlistedDelivery, offset |-> 4] >>]

options_Credit ==
    [name |-> "options::Credit",
     members |-> <<
        [member |-> "underlying", ty |-> options_CreditUnderlying, offset |-> 1],
        [member |-> "style", ty |-> options_UnlistedStyle, offset |-> 2],
        [member |-> "valuation", ty |-> options_UnlistedValuation, offset |-> 3],
        [member |-> "delivery", ty |-> options_UnlistedDelivery, offset |-> 4] >>]

options_Forex ==
    [name |-> "options::Forex",
     members |-> <<
        [member |-> "underlying", ty |-> options_ForexUnderlying, offset |-> 1],
        [member |-> "style", ty |-> options_UnlistedExerciseStyle, offset |-> 2],
        [member |-> "valuation", ty |-> options_UnlistedValuation, offset |-> 3],
        [member |-> "delivery", ty |-> options_UnlistedDelivery, offset |-> 4] >>]

options_OtherUnlisted ==
    [name |-> "options::OtherUnlisted",
     members |-> <<
        [member |-> "underlying", ty |-> options_OtherUnderlying, offset |-> 1],
        [member |-> "style", ty |-> options_UnlistedStyle, offset |-> 2],
        [member |-> "valuation", ty |-> options_UnlistedValuation, offset |-> 3],
        [member |-> "delivery", ty |-> options_OtherDelivery, offset |-> 4] >>]

\* ---- options.rs : categories (impl_category!) ----

options_Listed ==
    [name |-> "options::Listed",
     variants |-> <<
        [variant |-> "Call", data |-> options_Call, value |-> b("C")],
        [variant |-> "Put", data |-> options_Put, value |-> b("P")],
        [variant |-> "Other", data |-> options_OtherListed, value |-> b("M")] >>]

options_Unlisted ==
    [name |-> "options::Unlisted",
     variants |-> <<
        [variant |-> "Rate", data |-> options_Rate, value |-> b("R")],
        [variant |-> "Commodity", data |-> options_Commodity, value |-> b("T")],
        [variant |-> "Equity", data |-> options_Equity, value |-> b("E")],
        [variant |-> "Credit", data |-> options_Credit, value |-> b("C")],
        [variant |-> "Forex", data |-> options_Forex, value |-> b("F")],
        [variant |-> "Other", data |-> options_OtherUnlisted, value |-> b("M")] >>]

\* ---- futures.rs : groups (impl_group!) ----

futures_Financial ==
    [name |-> "futures::Financial",
     members |-> <<
        [member |-> "underlying", ty |-> futures_UnderlyingFinancial, offset |-> 1],
        [member |-> "delivery", ty |-> futures_Delivery, offset |-> 2],
        [member |-> "standardized", ty |-> Standardized, offset |-> 3],
        [member |-> "unassigned4", ty |-> NotApplicable, offset |-> 4] >>]

futures_Commodity ==
    [name |-> "futures::Commodity",
     members |-> <<
        [member |-> "underlying", ty |-> futures_UnderlyingCommodity, offset |-> 1],
        [member |-> "delivery", ty |-> futures_Delivery, offset |-> 2],
        [member |-> "standardized", ty |-> Standardized, offset |-> 3],
        [member |-> "unassigned4", ty |-> NotApplicable, offset |-> 4] >>]

\* ---- futures.rs : categories (impl_category!) ----

futures_Future ==
    [name |-> "futures::Future",
     variants |-> <<
        [variant |-> "Financial", data |-> futures_Financial, value |-> b("F")],
        [variant |-> "Commodity", data |-> futures_Commodity, value |-> b("C")] >>]

\* ---- swaps.rs : groups (impl_group!) ----

swaps_Rate ==
    [name |-> "swaps::Rate",
     members |-> <<
        [member |-> "underlying", ty |-> swaps_RateUnderlying, offset |-> 1],
        [member |-> "notional", ty |-> swaps_Notional, offset |-> 2],
        [member |-> "currency_kind", ty |-> swaps_RateCurrency, offset |-> 3],
        [member |-> "delivery", ty |-> swaps_RateDelivery, offset |-> 4] >>]

swaps_Commodity ==
    [name |-> "swaps::Commodity",
     members |-> <<
        [member |-> "underlying", ty |-> swaps_CommodityUnderlying, offset |-> 1],
        [member |-> "payout", ty |-> swaps_CommodityPayout, offset |-> 2],
        [member |-> "attr3", ty |-> NotApplicable, offset |-> 3],
        [member |-> "delivery", ty |-> swaps_CommodityDelivery, offset |-> 4] >>]

swaps_Equity ==
    [name |-> "swaps::Equity",
     members |-> <<
        [member |-> "underlying", ty |-> swaps_EquityUnderlying, offset |-> 1],
        [member |-> "payout", ty |-> swaps_EquityPayout, offset |-> 2],
        [member |-> "attr3", ty |-> NotApplicable, offset |-> 3],
        [member |-> "delivery", ty |-> swaps_EquityDelivery, offset |-> 4] >>]

swaps_Credit ==
    [name |-> "swaps::Credit",
     members |-> <<
        [member |-> "underlying", ty |-> swaps_CreditUnderlying, offset |-> 1],
        [member |-> "payout", ty |-> swaps_CreditPayout, offset |-> 2],
        [member |-> "issuer", ty |-> swaps_CreditIssuer, offset |-> 3],
        [member |-> "delivery", ty |-> swaps_CreditDelivery, offset |-> 4] >>]

swaps_Forex ==
    [name |-> "swaps::Forex",
     members |-> <<
        [member |-> "underlying", ty |-> swaps_ForexUnderlying, offset |-> 1],
        [member |-> "attr2", ty |-> NotApplicable, offset |-> 2],
        [member |-> "attr3", ty |-> NotApplicable, offset |-> 3],
        [member |-> "delivery", ty |-> swaps_ForexDelivery, offset |-> 4] >>]

swaps_Other ==
    [name |-> "swaps::Other",
     members |-> <<
        [member |-> "underlying", ty |-> swaps_OtherUnderlying, offset |-> 1],
        [member |-> "attr2", ty |-> NotApplicable, offset |-> 2],
        [member |-> "attr3", ty |-> NotApplicable, offset |-> 3],
        [member |-> "delivery", ty |-> swaps_OtherDelivery, offset |-> 4] >>]

\* ---- swaps.rs : categories (impl_category!) ----

swaps_Swap ==
    [name |-> "swaps::Swap",
     variants |-> <<
        [variant |-> "Rate", data |-> swaps_Rate, value |-> b("R")],
        [variant |-> "Commodity", data |-> swaps_Commodity, value |-> b("T")],
        [variant |-> "Equity", data |-> swaps_Equity, value |-> b("E")],
        [variant |-> "Credit", data |-> swaps_Credit, value |-> b("C")],
        [variant |-> "Forex", data |-> swaps_Forex, value |-> b("F")],
        [variant |-> "Other", data |-> swaps_Other, value |-> b("M")] >>]

\* ------------------------------------------------------------------------
\* The registry of declarations
\* ------------------------------------------------------------------------

Attrs == {
    Form, NotApplicable, Standardized,
    equities_VotingRight, equities_Ownership, equities_PaymentStatus,
    equities_Redemption, equities_Income, equities_Dependency,
    equities_RedemptionConversion, equities_Kind, equities_Distribution,
    equities_Repayment, equities_Underlying, debt_InterestInKindOrCash,
    debt_Guarantee, debt_Redemption, debt_InterestInKind,
    debt_ProtectedKind, debt_Distribution, debt_ProtectedRepayment,
    debt_Underlying, debt_UnprotectedKind, debt_UnprotectedRepayment,
    debt_Interest, debt_Dependency, debt_InterestOrCash, debt_OtherKind,
    civ_ClosedOrOpen, civ_Distribution, civ_Assets,
    civ_KindAndRestrictions, civ_Strategy, civ_Kind, civ_Style,
    civ_PensionKind, civ_FundsKind, rights_Assets, rights_Kind,
    rights_CallPut, rights_ExerciseStyle, rights_FutureAsset,
    rights_Barrier, rights_LongShort, rights_Dependency,
    options_ExerciseStyle, options_Underlying, options_Delivery,
    options_RateUnderlying, options_UnlistedStyle, options_RateValuation,
    options_UnlistedDelivery, options_CommodityUnderlying,
    options_UnlistedValuation, options_EquityUnderlying,
    options_CreditUnderlying, options_ForexUnderlying,
    options_UnlistedExerciseStyle, options_OtherUnderlying,
    options_OtherDelivery, futures_UnderlyingFinancial, futures_Delivery,
    futures_UnderlyingCommodity, swaps_RateUnderlying, swaps_Notional,
    swaps_RateCurrency, swaps_RateDelivery, swaps_CommodityUnderlying,
    swaps_CommodityPayout, swaps_CommodityDelivery,
    swaps_EquityUnderlying, swaps_EquityPayout, swaps_EquityDelivery,
    swaps_CreditUnderlying, swaps_CreditPayout, swaps_CreditIssuer,
    swaps_CreditDelivery, swaps_ForexUnderlying, swaps_ForexDelivery,
    swaps_OtherUnderlying, swaps_OtherDelivery }

Groups == {
    equities_Common, equities_Preferred, equities_Convertible,
    equities_PreferredConvertible, equities_LlpUnit,
    equities_DepositoryReceipt, equities_Structured, equities_Other,
    debt_Bond, debt_Convertible, debt_WarrantAttached, debt_MediumTerm,
    debt_MoneyMarket, debt_ProtectedStructured,
    debt_UnprotectedStructured, debt_MortgageBacked, debt_AssetBacked,
    debt_Municipal, debt_Depository, debt_Other, civ_Standard, civ_Hedge,
    civ_Reit, civ_Etf, civ_Pension, civ_FundOfFunds, civ_PrivateEquity,
    civ_Other, rights_Allotment, rights_Subscription, rights_Purchase,
    rights_Warrant, rights_MiniFuture, rights_DepositoryReceipt,
    rights_Other, options_Call, options_Put, options_OtherListed,
    options_Rate, options_Commodity, options_Equity, options_Credit,
    options_Forex, options_OtherUnlisted, futures_Financial,
    futures_Commodity, swaps_Rate, swaps_Commodity, swaps_Equity,
    swaps_Credit, swaps_Forex, swaps_Other }

Categories == {
    equities_Equity, debt_Debt, civ_Civ, rights_Right, options_Listed,
    options_Unlisted, futures_Future, swaps_Swap }

AttrNamed(n) == CHOOSE A \in Attrs : A.name = n
GroupNamed(n) == CHOOSE G \in Groups : G.name = n
CategoryNamed(n) == CHOOSE C \in Categories : C.name = n

\* ------------------------------------------------------------------------
\* impl_attr! : the attribute decoders
\* ------------------------------------------------------------------------

\* the first match arm `$value => Ok(Self::$variant)` that matches, 0 if none
MatchArm(variants, byte) ==
    LET hits == {i \in 1..Len(variants) : variants[i].value = byte}
    IN  IF hits = {} THEN 0 ELSE CHOOSE i \in hits : \A j \in hits : i <= j

\* a from_byte that folds case before matching: lowercase letters decode too
attr_from_byte_folding(A, byte) ==
    LET up == IF byte \in 97..122 THEN byte - 32 ELSE byte
        i == MatchArm(A.variants, up)
    IN  IF i # 0
        THEN Ok([ty |-> A.name, variant |-> A.variants[i].variant])
        ELSE Err(InvalidAttribute(0, byte))

\* a from_byte whose match ends in `_ => Ok(Self::Undefined)`
attr_from_byte_defaulting(A, byte) ==
    LET i == MatchArm(A.variants, byte)
    IN  IF i # 0
        THEN Ok([ty |-> A.name, variant |-> A.variants[i].variant])
        ELSE Ok([ty |-> A.name, variant |-> "Undefined"])

\* $name::from_byte(value)
attr_from_byte(A, byte) ==
    LET i == MatchArm(A.variants, byte)
    IN  IF i # 0
        THEN Ok([ty |-> A.name, variant |-> A.variants[i].variant])
        ELSE Err(InvalidAttribute(0, byte))

\* <$name as Attr>::from_code_byte(value)
attr_from_code_byte(A, byte) == attr_from_byte(A, byte)

\* $name::from_bytes without its length check: indexes the slice at once
attr_from_bytes_unchecked(A, slice, idx) ==
    IF idx >= Len(slice)
    THEN [res |-> Panic(idx, Len(slice)), reads |-> <<idx>>]
    ELSE LET r == attr_from_byte(A, slice[idx + 1])
         IN  [res |-> IF r.tag = "Err" /\ r.val.kind = "InvalidAttribute"
                      THEN Err(InvalidAttribute(idx, r.val.ch))
                      ELSE r,
              reads |-> <<idx>>]

\* $name::from_bytes that returns from_byte's error as it is: `other => other` only
attr_from_bytes_position_kept(A, slice, idx) ==
    IF Len(slice) # CFI_LENGTH
    THEN [res |-> Err(InvalidLength), reads |-> << >>]
    ELSE IF idx >= Len(slice)
    THEN [res |-> Panic(idx, Len(slice)), reads |-> <<idx>>]
    ELSE [res |-> attr_from_byte(A, slice[idx + 1]), reads |-> <<idx>>]

\* $name::from_bytes(value, idx)
attr_from_bytes(A, slice, idx) ==
    IF Len(slice) # CFI_LENGTH
    THEN [res |-> Err(InvalidLength), reads |-> << >>]
    ELSE IF idx >= Len(slice)
    THEN [res |-> Panic(idx, Len(slice)), reads |-> <<idx>>]
    ELSE LET r == attr_from_byte(A, slice[idx + 1])
         IN  [res |-> IF r.tag = "Err" /\ r.val.kind = "InvalidAttribute"
                      THEN Err(InvalidAttribute(idx, r.val.ch))
                      ELSE r,
              reads |-> <<idx>>]

\* <$name as AttrPos<INDEX>>::from_cfi_bytes(value), the trait's default body
attrpos_from_cfi_bytes(A, INDEX, slice) ==
    IF Len(slice) # CFI_LENGTH
    THEN [res |-> Err(InvalidLength), reads |-> << >>]
    ELSE IF INDEX >= Len(slice)
    THEN [res |-> Panic(INDEX, Len(slice)), reads |-> <<INDEX>>]
    ELSE [res |-> attr_from_code_byte(A, slice[INDEX + 1]), reads |-> <<INDEX>>]

\* ------------------------------------------------------------------------
\* impl_group! : the group decoders
\* ------------------------------------------------------------------------

\* the slice index the macro passes for a member: `$offset + 2`
MemberIndex(offset) == offset + 2

GroupValue(G, fields) == [ty |-> G.name, fields |-> fields]

\* the struct literal of $name::from_bytes, member k onwards: each member is
\* <$value>::from_bytes(src, $offset + 2), and the first error returns
RECURSIVE group_members_from_bytes(_, _, _, _, _)
group_members_from_bytes(G, src, k, fields, reads) ==
    IF k > Len(G.members)
    THEN [res |-> Ok(GroupValue(G, fields)), reads |-> reads]
    ELSE LET m == G.members[k]
             r == attr_from_bytes(m.ty, src, MemberIndex(m.offset))
         IN  IF r.res.tag = "Ok"
             THEN group_members_from_bytes(G, src, k + 1,
                      Append(fields, r.res.val), reads \o r.reads)
             ELSE [res |-> r.res, reads |-> reads \o r.reads]

\* $name::from_bytes(src)
group_from_bytes(G, src) == group_members_from_bytes(G, src, 1, << >>, << >>)

\* the struct literal of CfiGroup::from_cfi_bytes, member k onwards: each
\* member is Attr::from_code_byte(value[$offset + 2])
RECURSIVE group_members_from_cfi_bytes(_, _, _, _, _)
group_members_from_cfi_bytes(G, slice, k, fields, reads) ==
    IF k > Len(G.members)
    THEN [res |-> Ok(GroupValue(G, fields)), reads |-> reads]
    ELSE LET m == G.members[k]
             i == MemberIndex(m.offset)
         IN  IF i >= Len(slice)
             THEN [res |-> Panic(i, Len(slice)), reads |-> Append(reads, i)]
             ELSE LET r == attr_from_code_byte(m.ty, slice[i + 1])
                  IN  IF r.tag = "Ok"
                      THEN group_members_from_cfi_bytes(G, slice, k + 1,
                               Append(fields, r.val), Append(reads, i))
                      ELSE [res |-> r, reads |-> Append(reads, i)]

\* <$name as CfiGroup>::from_cfi_bytes(value)
group_from_cfi_bytes(G, slice) ==
    IF Len(slice) # CFI_LENGTH
    THEN [res |-> Err(InvalidLength), reads |-> << >>]
    ELSE group_members_from_cfi_bytes(G, slice, 1, << >>, << >>)

\* ------------------------------------------------------------------------
\* impl_category! : the category decoders
\* ------------------------------------------------------------------------

CategoryValue(C, variant, group) == [ty |-> C.name, variant |-> variant, data |-> group]

\* $name::from_bytes whose InvalidGroup carries the category byte
category_from_bytes_category_byte(C, slice) ==
    IF Len(slice) # CFI_LENGTH
    THEN [res |-> Err(InvalidLength), reads |-> << >>]
    ELSE LET byte == slice[GROUP_IDX + 1]
             i == MatchArm(C.variants, byte)
         IN  IF i # 0
             THEN LET g == group_from_bytes(C.variants[i].data, slice)
                  IN  [res |-> IF g.res.tag = "Ok"
                               THEN Ok(CategoryValue(C, C.variants[i].variant, g.res.val))
                               ELSE g.res,
                       reads |-> <<GROUP_IDX>> \o g.reads]
             ELSE [res |-> Err(InvalidGroup(slice[CATEGORY_IDX + 1])),
                   reads |-> <<GROUP_IDX>>]

\* $name::from_bytes whose match lacks the arm of the last declared variant
category_from_bytes_last_arm_missing(C, slice) ==
    IF Len(slice) # CFI_LENGTH
    THEN [res |-> Err(InvalidLength), reads |-> << >>]
    ELSE LET byte == slice[GROUP_IDX + 1]
             i == MatchArm(C.variants, byte)
         IN  IF i # 0 /\ i # Len(C.variants)
             THEN LET g == group_from_bytes(C.variants[i].data, slice)
                  IN  [res |-> IF g.res.tag = "Ok"
                               THEN Ok(CategoryValue(C, C.variants[i].variant, g.res.val))
                               ELSE g.res,
                       reads |-> <<GROUP_IDX>> \o g.reads]
             ELSE [res |-> Err(InvalidGroup(byte)), reads |-> <<GROUP_IDX>>]

\* $name::from_bytes that wraps a group's error: `Err(_) => Err(InvalidGroup(..))`
category_from_bytes_wrapping(C, slice) ==
    IF Len(slice) # CFI_LENGTH
    THEN [res |-> Err(InvalidLength), reads |-> << >>]
    ELSE LET byte == slice[GROUP_IDX + 1]
             i == MatchArm(C.variants, byte)
         IN  IF i # 0
             THEN LET g == group_from_bytes(C.variants[i].data, slice)
                  IN  [res |-> IF g.res.tag = "Ok"
                               THEN Ok(CategoryValue(C, C.variants[i].variant, g.res.val))
                               ELSE IF g.res.tag = "Err"
                               THEN Err(InvalidGroup(byte))
                               ELSE g.res,
                       reads |-> <<GROUP_IDX>> \o g.reads]
             ELSE [res |-> Err(InvalidGroup(byte)), reads |-> <<GROUP_IDX>>]

\* $name::from_bytes(value)
category_from_bytes(C, slice) ==
    IF Len(slice) # CFI_LENGTH
    THEN [res |-> Err(InvalidLength), reads |-> << >>]
    ELSE LET byte == slice[GROUP_IDX + 1]
             i == MatchArm(C.variants, byte)
         IN  IF i # 0
             THEN LET g == group_from_bytes(C.variants[i].data, slice)
                  IN  [res |-> IF g.res.tag = "Ok"
                               THEN Ok(CategoryValue(C, C.variants[i].variant, g.res.val))
                               ELSE g.res,
                       reads |-> <<GROUP_IDX>> \o g.reads]
             ELSE [res |-> Err(InvalidGroup(byte)), reads |-> <<GROUP_IDX>>]

\* ------------------------------------------------------------------------
\* Code : the root
\* ------------------------------------------------------------------------

\* enum Code with Debt given Equity's discriminant b'E'
Code_shared_tag ==
    [name |-> "crate::Code",
     variants |-> <<
        [variant |-> "Equity", data |-> "equities::Equity", value |-> b("E")],
        [variant |-> "Debt", data |-> "debt::Debt", value |-> b("E")],
        [variant |-> "Civ", data |-> "civ::Civ", value |-> b("C")],
        [variant |-> "Right", data |-> "rights::Right", value |-> b("R")],
        [variant |-> "ListedOption", data |-> "options::Listed", value |-> b("O")],
        [variant |-> "Future", data |-> "futures::Future", value |-> b("F")],
        [variant |-> "Swap", data |-> "swaps::Swap", value |-> b("S")],
        [variant |-> "UnlistedOption", data |-> "()", value |-> b("H")],
        [variant |-> "Spot", data |-> "()", value |-> b("I")],
        [variant |-> "Forward", data |-> "()", value |-> b("J")],
        [variant |-> "Strategy", data |-> "()", value |-> b("K")],
        [variant |-> "Financing", data |-> "()", value |-> b("L")],
        [variant |-> "Referential", data |-> "()", value |-> b("T")],
        [variant |-> "Misc", data |-> "()", value |-> b("M")] >>]

\* enum Code: the variants with their payload type and discriminant
Code ==
    [name |-> "crate::Code",
     variants |-> <<
        [variant |-> "Equity", data |-> "equities::Equity", value |-> b("E")],
        [variant |-> "Debt", data |-> "debt::Debt", value |-> b("D")],
        [variant |-> "Civ", data |-> "civ::Civ", value |-> b("C")],
        [variant |-> "Right", data |-> "rights::Right", value |-> b("R")],
        [variant |-> "ListedOption", data |-> "options::Listed", value |-> b("O")],
        [variant |-> "Future", data |-> "futures::Future", value |-> b("F")],
        [variant |-> "Swap", data |-> "swaps::Swap", value |-> b("S")],
        [variant |-> "UnlistedOption", data |-> "()", value |-> b("H")],
        [variant |-> "Spot", data |-> "()", value |-> b("I")],
        [variant |-> "Forward", data |-> "()", value |-> b("J")],
        [variant |-> "Strategy", data |-> "()", value |-> b("K")],
        [variant |-> "Financing", data |-> "()", value |-> b("L")],
        [variant |-> "Referential", data |-> "()", value |-> b("T")],
        [variant |-> "Misc", data |-> "()", value |-> b("M")] >>]

CodeValue(variant, data) == [ty |-> "crate::Code", variant |-> variant, data |-> data]

\* Code::from_bytes(src): the match on src[CATEGORY_IDX] has the one arm b'E'
Code_from_bytes(src) ==
    IF Len(src) # CFI_LENGTH
    THEN [res |-> Err(InvalidLength), reads |-> << >>]
    ELSE LET byte == src[CATEGORY_IDX + 1]
         IN  IF byte = b("E")
             THEN LET c == category_from_bytes(equities_Equity, src)
                  IN  [res |-> IF c.res.tag = "Ok"
                               THEN Ok(CodeValue("Equity", c.res.val))
                               ELSE c.res,
                       reads |-> <<CATEGORY_IDX>> \o c.reads]
             ELSE [res |-> Err(InvalidCategory(byte)), reads |-> <<CATEGORY_IDX>>]

\* ------------------------------------------------------------------------
\* The values of the types, and the predicates on them
\* ------------------------------------------------------------------------

\* $name::Undefined
Undefined(A) == [ty |-> A.name, variant |-> "Undefined"]

\* the payload of a Code variant declared with `()`
Unit == [ty |-> "()"]

\* every value of an attribute enumeration: the named members and Undefined
AttrValues(A) ==
    {[ty |-> A.name, variant |-> A.variants[i].variant] : i \in 1..Len(A.variants)}
    \cup {Undefined(A)}

\* what a predicate returns
Bool(x) == [tag |-> "bool", val |-> [kind |-> "bool", is |-> x]]

\* a predicate that also holds of Undefined: matches!(self, Self::$variant | Self::Undefined)
attr_is_or_undefined(A, i, v) ==
    v.variant = A.variants[i].variant \/ v.variant = "Undefined"

\* $name::is_<$variant:snake>(&self), generated for the i-th declared variant
attr_is(A, i, v) == v.variant = A.variants[i].variant

\* $name::is_undefined(&self)
attr_is_undefined(A, v) == v.variant = "Undefined"

\* $name::is_<$variant:snake>(&self) of a category, for its i-th variant
category_is(C, i, v) == v.variant = C.variants[i].variant

\* the predicates written out in `impl Code`, with the pattern each matches
Code_is ==
    << [pred |-> "is_equity", matches |-> "Equity"],
       [pred |-> "is_debt", matches |-> "Debt"],
       [pred |-> "is_civ", matches |-> "Civ"],
       [pred |-> "is_entitlement", matches |-> "Right"],
       [pred |-> "is_listed_option", matches |-> "ListedOption"],
       [pred |-> "is_future", matches |-> "Future"],
       [pred |-> "is_swap", matches |-> "Swap"],
       [pred |-> "is_unlisted_option", matches |-> "UnlistedOption"],
       [pred |-> "is_spot", matches |-> "Spot"],
       [pred |-> "is_forward", matches |-> "Forward"],
       [pred |-> "is_strategy", matches |-> "Strategy"],
       [pred |-> "is_financing", matches |-> "Financing"],
       [pred |-> "is_referential", matches |-> "Referential"],
       [pred |-> "is_misc", matches |-> "Misc"] >>

\* Code::<Code_is[k].pred>(&self)
Code_is_pred(k, v) == v.variant = Code_is[k].matches

\* $name::$member(&self), the accessor of the k-th declared field: { self.$member }
group_member(G, k, g) == g.fields[k]

\* an attrN that answers with the field numbered N + 1 (the last with the first)
group_attrN_next_field(G, N, g) ==
    LET k == CHOOSE k \in 1..Len(G.members) :
                 G.members[k].offset = (N % Len(G.members)) + 1
    IN  group_member(G, k, g)

\* <$name as CfiGroup>::attr$offset(&self): self.$member() of the field
\* declared with the number N
group_attrN(G, N, g) ==
    LET k == CHOOSE k \in 1..Len(G.members) : G.members[k].offset = N
    IN  group_member(G, k, g)

\* ------------------------------------------------------------------------
\* Layout: mem::size_of, from the repr attributes
\* ------------------------------------------------------------------------

\* the size of the u8 tag of a #[repr(u8)] enum
TAG_SIZE == 1

Max(S) == CHOOSE x \in S : \A y \in S : y <= x

\* impl_attr!: a #[repr(u8)] enum without payloads is its tag
size_of_attr(A) == TAG_SIZE

RECURSIVE size_of_members(_, _)
size_of_members(G, k) ==
    IF k > Len(G.members) THEN 0
    ELSE size_of_attr(G.members[k].ty) + size_of_members(G, k + 1)

\* impl_group!: a #[repr(C,packed)] struct is its members with no padding
size_of_group(G) == size_of_members(G, 1)

\* a category laid out without its tag byte
size_of_category_untagged(C) ==
    Max({size_of_group(C.variants[i].data) : i \in 1..Len(C.variants)})

\* impl_category!: a #[repr(u8)] enum with payloads is the tag followed by
\* the largest payload
size_of_category(C) ==
    TAG_SIZE + Max({size_of_group(C.variants[i].data) : i \in 1..Len(C.variants)})

\* the payload of a Code variant: a category, or ()
size_of_payload(data) ==
    IF data = "()" THEN 0 ELSE size_of_category(CategoryNamed(data))

\* mem::size_of::<Code>(): #[repr(u8)], the tag followed by the largest payload
size_of_Code ==
    TAG_SIZE + Max({size_of_payload(Code.variants[i].data) : i \in 1..Len(Code.variants)})

\* ------------------------------------------------------------------------
\* Code::from_bytes step by step, as one thread runs it: the call keeps its
\* slice and its locals, and there is nothing else to read or write
\* ------------------------------------------------------------------------

Done(c, r) == [c EXCEPT !.pc = "done", !.res = r]

\* the next step of a call
call_step(c) ==
    CASE c.pc = "Code::len" ->
            IF Len(c.src) # CFI_LENGTH
            THEN Done(c, Err(InvalidLength))
            ELSE [c EXCEPT !.pc = "Code::match"]
      [] c.pc = "Code::match" ->
            IF c.src[CATEGORY_IDX + 1] = b("E")
            THEN [c EXCEPT !.pc = "category::len"]
            ELSE Done(c, Err(InvalidCategory(c.src[CATEGORY_IDX + 1])))
      [] c.pc = "category::len" ->
            IF Len(c.src) # CFI_LENGTH
            THEN Done(c, Err(InvalidLength))
            ELSE [c EXCEPT !.pc = "category::match"]
      [] c.pc = "category::match" ->
            LET i == MatchArm(equities_Equity.variants, c.src[GROUP_IDX + 1])
            IN  IF i # 0
                THEN [c EXCEPT !.pc = "group::member", !.arm = i, !.k = 1]
                ELSE Done(c, Err(InvalidGroup(c.src[GROUP_IDX + 1])))
      [] c.pc = "group::member" ->
            LET v == equities_Equity.variants[c.arm]
                G == v.data
                m == G.members[c.k]
                r == attr_from_bytes(m.ty, c.src, MemberIndex(m.offset)).res
            IN  IF r.tag # "Ok"
                THEN Done(c, r)
                ELSE IF c.k < Len(G.members)
                THEN [c EXCEPT !.k = c.k + 1, !.fields = Append(c.fields, r.val)]
                ELSE Done(c, Ok(CodeValue("Equity",
                         CategoryValue(equities_Equity, v.variant,
                             GroupValue(G, Append(c.fields, r.val))))))
      [] OTHER -> c

\* a step that reads the slice from a buffer shared by the threads (the one
\* the first thread filled)
Code_from_bytes_step_shared(cs, t) ==
    LET first == CHOOSE u \in DOMAIN cs : \A w \in DOMAIN cs : u <= w
    IN  [call_step([cs[t] EXCEPT !.src = cs[first].src]) EXCEPT !.src = cs[t].src]

\* the step of thread t: a function of that thread's call alone
Code_from_bytes_step(cs, t) == call_step(cs[t])

\* ------------------------------------------------------------------------
\* The inputs the decoders are called on
\* ------------------------------------------------------------------------

\* the longest slice handed to a decoder
MaxLen == 8
\* how many code points of an enumeration the group-level inputs draw on
MaxCodes == 2
\* the largest idx handed to $name::from_bytes
MaxIdx == 6

\* bytes that no enumeration assigns: 'X' (Undefined's discriminant), '9', 's'
Probes == {b("X"), 57, 115}

CodePoints(A) == {A.variants[i].value : i \in 1..Len(A.variants)}
SomeCodePoints(A) ==
    {A.variants[i].value : i \in 1..(IF Len(A.variants) < MaxCodes THEN Len(A.variants) ELSE MaxCodes)}

\* the bytes tried at slice index p (2..5) of an input for group G: code
\* points of the member declared for p (member p - 1), code points of the
\* member declared before it, 'X' and '9'
IndexBytes(G, p) ==
    SomeCodePoints(G.members[p - 1].ty)
    \cup (IF p > 2 THEN SomeCodePoints(G.members[p - 2].ty) ELSE {})
    \cup {b("X"), 57}

GroupTails(G) ==
    {<<c2, c3, c4, c5>> : c2 \in IndexBytes(G, 2), c3 \in IndexBytes(G, 3),
                          c4 \in IndexBytes(G, 4), c5 \in IndexBytes(G, 5)}

\* v cut or padded to n bytes
Resize(v, n) == [i \in 1..n |-> IF i <= Len(v) THEN v[i] ELSE b("X")]

\* slices of every length but CFI_LENGTH
WrongLength(S) == {Resize(v, n) : v \in S, n \in (0..MaxLen) \ {CFI_LENGTH}}

XTail == <<b("X"), b("X"), b("X"), b("X")>>
FirstTail(G) == [k \in 1..4 |->
    LET vs == G.members[k].ty.variants IN IF Len(vs) = 0 THEN b("X") ELSE vs[1].value]

GroupHeads == {<<b("E"), b("S")>>, <<57, 57>>}

GroupInputs(G) ==
    LET six == {h \o t : h \in GroupHeads, t \in GroupTails(G)}
    IN  six \cup WrongLength({h \o t : h \in GroupHeads, t \in {XTail, FirstTail(G)}})

GroupTags(C) == {C.variants[i].value : i \in 1..Len(C.variants)}
NoGroupTags(C) == ({b("Z")} \cup Probes) \ GroupTags(C)

CategoryInputs(C) ==
    LET good == UNION {{<<b("E"), C.variants[i].value>> \o t : t \in GroupTails(C.variants[i].data)}
                        : i \in 1..Len(C.variants)}
        bad == {<<b("E"), z>> \o t : z \in NoGroupTags(C), t \in GroupTails(C.variants[1].data)}
        six == good \cup bad
    IN  six \cup WrongLength({<<b("E"), C.variants[1].value>> \o t :
                                 t \in {XTail, FirstTail(C.variants[1].data)}})

CategoryTags == {Code.variants[i].value : i \in 1..Len(Code.variants)}
NoCategoryTags == {b("Q"), b("X"), 57, 101}

CodeInputs ==
    LET equity == {v \in CategoryInputs(equities_Equity) : Len(v) = CFI_LENGTH}
        rests == {SubSeq(v, 2, 6) : v \in {w \in equity : w[2] \in {b("S"), b("Z")}}}
        others == {<<c>> \o r : c \in (CategoryTags \cup NoCategoryTags) \ {b("E")}, r \in rests}
        six == equity \cup others
    IN  six \cup WrongLength({<<c, b("S")>> \o t : c \in {b("E"), b("H"), b("Q")},
                                 t \in {XTail, FirstTail(equities_Common)}})

\* a slice that holds c at index p and d everywhere else
Poke(p, c, d) == [i \in 1..CFI_LENGTH |-> IF i = p + 1 THEN c ELSE d]

AttrSlices(A) ==
    LET six == {Poke(p, c, d) : p \in 0..(CFI_LENGTH - 1),
                                c \in SomeCodePoints(A) \cup Probes, d \in {b("X"), 57}}
    IN  six \cup WrongLength({Poke(0, b("X"), b("X")), Poke(0, 57, b("X"))})

\* ------------------------------------------------------------------------
\* The state machine: one action per decoder.  A behaviour is one call: the
\* decoders are functions of their arguments and keep nothing between calls.
\* ------------------------------------------------------------------------

NoResult == [res |-> [tag |-> "None", val |-> [kind |-> "None"]], reads |-> << >>]

NoSelf == [ty |-> "none"]

\* how many threads call Code::from_bytes side by side
NumThreads == 2
Threads == 1..NumThreads

\* a thread that has not called yet
Idle == [pc |-> "idle", src |-> << >>, arm |-> 0, k |-> 0, fields |-> << >>,
         res |-> NoResult.res]

Init ==
    /\ fn = "none"
    /\ ty = "none"
    /\ value = << >>
    /\ arg = 0
    /\ result = NoResult
    /\ self = NoSelf
    /\ calls = [t \in Threads |-> Idle]

\* a byte-level decoder returns no slice reads
ByteResult(r) == [res |-> r, reads |-> << >>]

AttrFromByte ==
    /\ fn = "none"
    /\ UNCHANGED <<self, calls>>
    /\ \E A \in Attrs, byte \in Byte :
        /\ fn' = "attr::from_byte"
        /\ ty' = A.name
        /\ value' = << >>
        /\ arg' = byte
        /\ result' = ByteResult(attr_from_byte(A, byte))

AttrFromCodeByte ==
    /\ fn = "none"
    /\ UNCHANGED <<self, calls>>
    /\ \E A \in Attrs, byte \in Byte :
        /\ fn' = "Attr::from_code_byte"
        /\ ty' = A.name
        /\ value' = << >>
        /\ arg' = byte
        /\ result' = ByteResult(attr_from_code_byte(A, byte))

AttrFromBytes ==
    /\ fn = "none"
    /\ UNCHANGED <<self, calls>>
    /\ \E A \in Attrs :
        \E slice \in AttrSlices(A), idx \in 0..MaxIdx :
            /\ fn' = "attr::from_bytes"
            /\ ty' = A.name
            /\ value' = slice
            /\ arg' = idx
            /\ result' = attr_from_bytes(A, slice, idx)

AttrPosFromCfiBytes ==
    /\ fn = "none"
    /\ UNCHANGED <<self, calls>>
    /\ \E A \in Attrs :
        \E slice \in AttrSlices(A), INDEX \in A.idx :
            /\ fn' = "AttrPos::from_cfi_bytes"
            /\ ty' = A.name
            /\ value' = slice
            /\ arg' = INDEX
            /\ result' = attrpos_from_cfi_bytes(A, INDEX, slice)

GroupFromBytes ==
    /\ fn = "none"
    /\ UNCHANGED <<self, calls>>
    /\ \E G \in Groups :
        \E src \in GroupInputs(G) :
            /\ fn' = "group::from_bytes"
            /\ ty' = G.name
            /\ value' = src
            /\ arg' = 0
            /\ result' = group_from_bytes(G, src)

GroupFromCfiBytes ==
    /\ fn = "none"
    /\ UNCHANGED <<self, calls>>
    /\ \E G \in Groups :
        \E slice \in GroupInputs(G) :
            /\ fn' = "CfiGroup::from_cfi_bytes"
            /\ ty' = G.name
            /\ value' = slice
            /\ arg' = 0
            /\ result' = group_from_cfi_bytes(G, slice)

CategoryFromBytes ==
    /\ fn = "none"
    /\ UNCHANGED <<self, calls>>
    /\ \E C \in Categories :
        \E slice \in CategoryInputs(C) :
            /\ fn' = "category::from_bytes"
            /\ ty' = C.name
            /\ value' = slice
            /\ arg' = 0
            /\ result' = category_from_bytes(C, slice)

CodeFromBytes ==
    /\ fn = "none"
    /\ UNCHANGED <<self, calls>>
    /\ \E src \in CodeInputs :
        /\ fn' = "Code::from_bytes"
        /\ ty' = Code.name
        /\ value' = src
        /\ arg' = 0
        /\ result' = Code_from_bytes(src)

\* two values of a group: every member Undefined, every member its first variant
GroupValues(G) ==
    {GroupValue(G, [k \in 1..Len(G.members) |-> Undefined(G.members[k].ty)]),
     GroupValue(G, [k \in 1..Len(G.members) |->
         LET A == G.members[k].ty
         IN  IF Len(A.variants) = 0 THEN Undefined(A)
             ELSE [ty |-> A.name, variant |-> A.variants[1].variant]])}

CategoryValues(C) ==
    UNION {{CategoryValue(C, C.variants[i].variant, g) : g \in GroupValues(C.variants[i].data)}
           : i \in 1..Len(C.variants)}

CodeValues ==
    UNION {IF Code.variants[i].data = "()"
           THEN {CodeValue(Code.variants[i].variant, Unit)}
           ELSE {CodeValue(Code.variants[i].variant, c) :
                    c \in CategoryValues(CategoryNamed(Code.variants[i].data))}
           : i \in 1..Len(Code.variants)}

\* an attribute predicate: arg is the declared variant it was generated for,
\* 0 for is_undefined
AttrIs ==
    /\ fn = "none"
    /\ UNCHANGED calls
    /\ \E A \in Attrs :
        \E v \in AttrValues(A), i \in 0..Len(A.variants) :
            /\ fn' = "attr::is"
            /\ ty' = A.name
            /\ value' = << >>
            /\ arg' = i
            /\ self' = v
            /\ result' = ByteResult(Bool(IF i = 0 THEN attr_is_undefined(A, v)
                                                  ELSE attr_is(A, i, v)))

CategoryIs ==
    /\ fn = "none"
    /\ UNCHANGED calls
    /\ \E C \in Categories :
        \E v \in CategoryValues(C), i \in 1..Len(C.variants) :
            /\ fn' = "category::is"
            /\ ty' = C.name
            /\ value' = << >>
            /\ arg' = i
            /\ self' = v
            /\ result' = ByteResult(Bool(category_is(C, i, v)))

CodeIs ==
    /\ fn = "none"
    /\ UNCHANGED calls
    /\ \E v \in CodeValues, k \in 1..Len(Code_is) :
        /\ fn' = "Code::is"
        /\ ty' = Code.name
        /\ value' = << >>
        /\ arg' = k
        /\ self' = v
        /\ result' = ByteResult(Bool(Code_is_pred(k, v)))

\* what mem::size_of returns
Size(n) == [tag |-> "usize", val |-> [kind |-> "usize", n |-> n]]

\* mem::size_of::<Code>(), asked of each Code value
SizeOfCode ==
    /\ fn = "none"
    /\ UNCHANGED calls
    /\ \E v \in CodeValues :
        /\ fn' = "mem::size_of"
        /\ ty' = Code.name
        /\ value' = << >>
        /\ arg' = 0
        /\ self' = v
        /\ result' = ByteResult(Size(size_of_Code))

\* what an accessor returns
Returned(v) == [tag |-> "value", val |-> v]

\* `let g = <a group value>`: the value the accessors are then called on
GroupLet ==
    /\ fn = "none"
    /\ UNCHANGED calls
    /\ \E G \in Groups :
        \E g \in GroupValues(G) :
            /\ fn' = "group::let"
            /\ ty' = G.name
            /\ value' = << >>
            /\ arg' = 0
            /\ self' = g
            /\ result' = NoResult

\* g.$member(): the receiver is &self, so g is left as it is
GroupAccessor ==
    /\ fn = "group::let"
    /\ UNCHANGED <<ty, value, self, calls>>
    /\ \E k \in 1..Len(GroupNamed(ty).members) :
        /\ fn' = "group::member"
        /\ arg' = k
        /\ result' = ByteResult(Returned(group_member(GroupNamed(ty), k, self)))

\* CfiGroup::attrN(&g), N = 1..4
GroupAttrN ==
    /\ fn = "group::let"
    /\ UNCHANGED <<ty, value, self, calls>>
    /\ \E N \in 1..4 :
        /\ fn' = "CfiGroup::attrN"
        /\ arg' = N
        /\ result' = ByteResult(Returned(group_attrN(GroupNamed(ty), N, self)))

Next ==
    \/ AttrFromByte
    \/ AttrFromCodeByte
    \/ AttrFromBytes
    \/ AttrPosFromCfiBytes
    \/ GroupFromBytes
    \/ GroupFromCfiBytes
    \/ CategoryFromBytes
    \/ CodeFromBytes
    \/ AttrIs
    \/ CategoryIs
    \/ CodeIs
    \/ SizeOfCode
    \/ GroupLet
    \/ GroupAccessor
    \/ GroupAttrN

Spec == Init /\ [][Next]_vars

\* ------------------------------------------------------------------------
\* Threads: each runs one Code::from_bytes call, a step at a time, in any
\* interleaving
\* ------------------------------------------------------------------------

Text(s) == [i \in 1..Len(s) |-> b(s[i])]

\* the slices the threads decode
ParInputs ==
    {Text(<<"E", "S", "V", "U", "F", "B">>), Text(<<"E", "S", "V", "V", "U", "F">>),
     Text(<<"E", "S", "X", "X", "X", "X">>), Text(<<"E", "Z", "V", "U", "F", "B">>),
     Text(<<"D", "S", "V", "U", "F", "B">>), Text(<<"E", "S">>)}

main == <<fn, ty, value, arg, result, self>>

CallCode ==
    \E t \in Threads, src \in ParInputs :
        /\ calls[t].pc = "idle"
        /\ calls' = [calls EXCEPT ![t] = [Idle EXCEPT !.pc = "Code::len", !.src = src]]
        /\ UNCHANGED main

\* `if src.len() != CFI_LENGTH` of Code::from_bytes
CodeLen ==
    \E t \in Threads :
        /\ calls[t].pc = "Code::len"
        /\ calls' = [calls EXCEPT ![t] = Code_from_bytes_step(calls, t)]
        /\ UNCHANGED main

\* `match src[CATEGORY_IDX]` of Code::from_bytes
CodeMatch ==
    \E t \in Threads :
        /\ calls[t].pc = "Code::match"
        /\ calls' = [calls EXCEPT ![t] = Code_from_bytes_step(calls, t)]
        /\ UNCHANGED main

\* `if value.len() != CFI_LENGTH` of Equity::from_bytes
CategoryLen ==
    \E t \in Threads :
        /\ calls[t].pc = "category::len"
        /\ calls' = [calls EXCEPT ![t] = Code_from_bytes_step(calls, t)]
        /\ UNCHANGED main

\* `match value[GROUP_IDX]` of Equity::from_bytes
CategoryMatch ==
    \E t \in Threads :
        /\ calls[t].pc = "category::match"
        /\ calls' = [calls EXCEPT ![t] = Code_from_bytes_step(calls, t)]
        /\ UNCHANGED main

\* the next member of the group's struct literal
GroupMember ==
    \E t \in Threads :
        /\ calls[t].pc = "group::member"
        /\ calls' = [calls EXCEPT ![t] = Code_from_bytes_step(calls, t)]
        /\ UNCHANGED main

NextPar ==
    \/ CallCode
    \/ CodeLen
    \/ CodeMatch
    \/ CategoryLen
    \/ CategoryMatch
    \/ GroupMember

SpecPar == Init /\ [][NextPar]_vars

\* ------------------------------------------------------------------------
\* Reading the recorded call
\* ------------------------------------------------------------------------

\* the decoders that take a slice
SliceDecoders == {"attr::from_bytes", "AttrPos::from_cfi_bytes", "group::from_bytes",
                  "CfiGroup::from_cfi_bytes", "category::from_bytes", "Code::from_bytes"}

IsSix == Len(value) = CFI_LENGTH


\* the u8 discriminant of an attribute value (#[repr(u8)]: `$variant = $value`,
\* `Undefined = b'X'`)
Discriminant(A, v) ==
    IF v.variant = "Undefined"
    THEN Undefined_value
    ELSE LET i == CHOOSE i \in 1..Len(A.variants) : A.variants[i].variant = v.variant
         IN  A.variants[i].value

\* what the documentation of an enumeration says a byte stands for
Member(A, byte) ==
    LET i == CHOOSE i \in 1..Len(A.variants) : A.variants[i].value = byte
    IN  [ty |-> A.name, variant |-> A.variants[i].variant]
Meaning(A, byte) == IF byte = b("X") THEN Undefined(A) ELSE Member(A, byte)

\* the arm of a category that byte 1 selects
Arm(C, byte) == CHOOSE i \in 1..Len(C.variants) : C.variants[i].value = byte

\* the value a category decoder is documented to build from a six-byte slice
\* whose byte 1 is a group tag and whose bytes 2..5 are in their alphabets
Documented(C, slice) ==
    LET v == C.variants[Arm(C, slice[2])]
    IN  CategoryValue(C, v.variant,
            GroupValue(v.data, [k \in 1..4 |-> Meaning(v.data.members[k].ty, slice[k + 2])]))

\* ------------------------------------------------------------------------
\* The claims
\* ------------------------------------------------------------------------

\* the recorded call is Code::from_bytes on six bytes: 'E', an Equity group
\* tag, and four assigned code points of the group's members
EquityMembersInput ==
    /\ fn = "Code::from_bytes"
    /\ IsSix
    /\ value[1] = b("E")
    /\ value[2] \in GroupTags(equities_Equity)
    /\ LET G == equities_Equity.variants[Arm(equities_Equity, value[2])].data
       IN  \A k \in 1..4 : value[k + 2] \in CodePoints(G.members[k].ty)

\* C1: a six-byte input 'E' + Equity group tag + four assigned code points
\* decodes to Ok(Code::Equity(group)) whose i-th attribute is the member with
\* code point byte i + 1 ("ESVUFB" is Common / Voting / Free / Fully / Bearer).
C1_EquityDecodesMembers ==
    EquityMembersInput =>
        result.res = Ok(CodeValue("Equity", Documented(equities_Equity, value)))

\* the root, category and group decoders
CodeDecoders == {"Code::from_bytes", "category::from_bytes", "group::from_bytes",
                 "CfiGroup::from_cfi_bytes"}

\* C2: on every slice the root, category and group decoders return Ok or one
\* typed Error, read no index outside the slice and do not abort.
C2_ReturnsWithoutAbort ==
    fn \in CodeDecoders =>
        /\ result.res.tag \in {"Ok", "Err"}
        /\ \A i \in 1..Len(result.reads) : result.reads[i] < Len(value)

\* C3: a slice decoder given a slice whose length is not 6 returns
\* InvalidLength and has inspected no byte of it.
C3_LengthGate ==
    (fn \in SliceDecoders /\ ~IsSix) =>
        /\ result.res = Err(InvalidLength)
        /\ result.reads = << >>

C3_Witness ==
    /\ fn = "Code::from_bytes"
    /\ value = Text(<<"E", "S">>)
    /\ result.res = Err(InvalidLength)
    /\ result.reads = << >>

\* the recorded call is a category decoder (or the root, on 'E') on six
\* bytes: byte 1 a group tag, bytes 2..5 each an assigned code point or 'X',
\* at least one of them 'X'
TheCategory == IF fn = "Code::from_bytes" THEN equities_Equity ELSE CategoryNamed(ty)

UndefinedInput ==
    /\ fn \in {"category::from_bytes", "Code::from_bytes"}
    /\ IsSix
    /\ fn = "Code::from_bytes" => value[1] = b("E")
    /\ value[2] \in GroupTags(TheCategory)
    /\ LET G == TheCategory.variants[Arm(TheCategory, value[2])].data
       IN  /\ \A k \in 1..4 : value[k + 2] \in CodePoints(G.members[k].ty) \cup {b("X")}
           /\ \E k \in 1..4 : value[k + 2] = b("X")

\* C4: with 'X' at an attribute position and the other attribute bytes legal,
\* the input decodes and the attribute at that position is Undefined
\* ("ESXXXX" is Equity / Common with four Undefined attributes).
C4_UndefinedUniversality ==
    UndefinedInput =>
        result.res = IF fn = "Code::from_bytes"
                     THEN Ok(CodeValue("Equity", Documented(TheCategory, value)))
                     ELSE Ok(Documented(TheCategory, value))

\* C5: from_byte / from_code_byte succeed exactly on the assigned code points
\* and on 'X', and 'X' gives Undefined.
C5_AttrAcceptsX ==
    fn \in {"attr::from_byte", "Attr::from_code_byte"} =>
        LET A == AttrNamed(ty)
        IN  /\ result.res.tag = "Ok" <=> arg \in CodePoints(A) \cup {b("X")}
            /\ arg = b("X") => result.res = Ok(Undefined(A))

\* C6 (encoding a decoded Code gives the input back) has no case to check:
\* every group has four members, the fourth is decoded from index 4 + 2, and
\* so no root, category or group decoder ever returns Ok.
NoDecoderReturnsOk == fn \in CodeDecoders => result.res.tag # "Ok"

\* C7: from_byte of a value's own code point gives that value back, and the
\* code point of whatever from_byte decodes is the byte it was given.
C7_AttrRoundTrip ==
    fn = "attr::from_byte" =>
        LET A == AttrNamed(ty)
        IN  /\ \A v \in AttrValues(A) : arg = Discriminant(A, v) => result.res = Ok(v)
            /\ result.res.tag = "Ok" => Discriminant(A, result.res.val) = arg

\* C8: on six bytes Code::from_bytes returns InvalidCategory exactly when
\* byte 0 is none of the 14 category tags, and then carries byte 0.
C8_InvalidCategoryIff ==
    (fn = "Code::from_bytes" /\ IsSix) =>
        /\ (result.res.tag = "Err" /\ result.res.val.kind = "InvalidCategory")
               <=> value[1] \notin CategoryTags
        /\ (result.res.tag = "Err" /\ result.res.val.kind = "InvalidCategory")
               => result.res.val = InvalidCategory(value[1])

SingleTagVariants == {i \in 1..Len(Code.variants) : Code.variants[i].data = "()"}

\* C9: on six bytes whose byte 0 tags a single-tag category, Code::from_bytes
\* returns Ok with that variant, whatever bytes 1..5 are.
C9_SingleTagDecodes ==
    (fn = "Code::from_bytes" /\ IsSix) =>
        \A i \in SingleTagVariants :
            value[1] = Code.variants[i].value =>
                result.res = Ok(CodeValue(Code.variants[i].variant, Unit))

\* C10: a category decoder given six bytes whose byte 1 is none of its group
\* tags returns InvalidGroup carrying byte 1, whatever bytes 2..5 are; so does
\* the root for 'E' ("EZVUFB" gives InvalidGroup('Z')).
C10_InvalidGroup ==
    /\ (fn = "category::from_bytes" /\ IsSix /\ value[2] \notin GroupTags(CategoryNamed(ty)))
           => result.res = Err(InvalidGroup(value[2]))
    /\ (fn = "Code::from_bytes" /\ IsSix /\ value[1] = b("E")
            /\ value[2] \notin GroupTags(equities_Equity))
           => result.res = Err(InvalidGroup(value[2]))

C10_Witness ==
    /\ fn = "Code::from_bytes"
    /\ value = Text(<<"E", "Z", "V", "U", "F", "B">>)
    /\ result.res = Err(InvalidGroup(b("Z")))

\* the bytes the documentation allows for an enumeration: its code points and 'X'
Alphabet(A) == CodePoints(A) \cup {b("X")}

\* the attribute indices (2..5) of a six-byte slice whose byte is outside the
\* alphabet of the member of G declared for that index
InvalidPositions(G, slice) ==
    {p \in 2..5 : slice[p + 1] \notin Alphabet(G.members[p - 1].ty)}

Lowest(S) == CHOOSE p \in S : \A q \in S : p <= q

IsInvalidAttribute(r) == r.tag = "Err" /\ r.val.kind = "InvalidAttribute"

\* C11: when Code::from_bytes rejects six bytes because of an attribute byte,
\* the error is InvalidAttribute(p, c) with p the index of the first attribute
\* byte outside its position's alphabet and c that byte ("ESVUF9" gives
\* InvalidAttribute(5, '9')).
C11_AttributeErrorPosition ==
    (fn = "Code::from_bytes" /\ IsSix /\ value[1] = b("E")
        /\ value[2] \in GroupTags(equities_Equity)) =>
        LET G == equities_Equity.variants[Arm(equities_Equity, value[2])].data
            bad == InvalidPositions(G, value)
        IN  /\ bad # {} =>
                 result.res = Err(InvalidAttribute(Lowest(bad), value[Lowest(bad) + 1]))
            /\ IsInvalidAttribute(result.res) =>
                 /\ bad # {}
                 /\ result.res.val = InvalidAttribute(Lowest(bad), value[Lowest(bad) + 1])

\* the Code variants whose payload is a category enumeration
StructuredVariants == {i \in 1..Len(Code.variants) : Code.variants[i].data # "()"}

\* C12: on six bytes Code::from_bytes reports an invalid category byte
\* whatever follows it, an invalid group byte under a valid category byte even
\* when attribute bytes are invalid too, and an attribute error only when
\* bytes 0 and 1 are both valid.
C12_FailFastAcrossLevels ==
    (fn = "Code::from_bytes" /\ IsSix) =>
        /\ value[1] \notin CategoryTags => result.res = Err(InvalidCategory(value[1]))
        /\ \A i \in StructuredVariants :
               (/\ value[1] = Code.variants[i].value
                /\ value[2] \notin GroupTags(CategoryNamed(Code.variants[i].data)))
               => result.res = Err(InvalidGroup(value[2]))
        /\ IsInvalidAttribute(result.res) =>
               \E i \in StructuredVariants :
                   /\ value[1] = Code.variants[i].value
                   /\ value[2] \in GroupTags(CategoryNamed(Code.variants[i].data))


\* C13: from_byte returns Ok(m) on member m's code point and
\* InvalidAttribute carrying the byte on every byte that is neither a code
\* point of the enumeration nor 'X' (lowercase letters and digits included);
\* the code points of one enumeration are pairwise distinct.
C13_ClosedAlphabet ==
    fn = "attr::from_byte" =>
        LET A == AttrNamed(ty)
        IN  /\ \A i \in 1..Len(A.variants) :
                   arg = A.variants[i].value =>
                       result.res = Ok([ty |-> A.name, variant |-> A.variants[i].variant])
            /\ arg \notin Alphabet(A) => result.res = Err(InvalidAttribute(0, arg))
            /\ \A i, j \in 1..Len(A.variants) :
                   A.variants[i].value = A.variants[j].value => i = j

\* VotingRight::from_byte(b'v') is rejected with the byte it was given
C13_Witness ==
    /\ fn = "attr::from_byte"
    /\ ty = equities_VotingRight.name
    /\ arg = 118
    /\ b("V") \in CodePoints(equities_VotingRight)
    /\ result.res = Err(InvalidAttribute(0, 118))

\* the four decoders of an attribute enumeration
AttrDecoders == {"attr::from_byte", "Attr::from_code_byte", "attr::from_bytes",
                 "AttrPos::from_cfi_bytes"}

\* the recorded attribute call looked at a byte / the byte it looked at
Inspected == fn \in {"attr::from_byte", "Attr::from_code_byte"} \/ (IsSix /\ arg < CFI_LENGTH)
InspectedByte == IF fn \in {"attr::from_byte", "Attr::from_code_byte"} THEN arg ELSE value[arg + 1]

\* C14: an attribute decoder returns Undefined only when the byte it
\* inspected is 'X', and on a byte outside the enumeration's alphabet it
\* returns InvalidAttribute carrying that byte, never a value.
C14_NoSilentCoercion ==
    fn \in AttrDecoders =>
        LET A == AttrNamed(ty)
        IN  /\ result.res = Ok(Undefined(A)) => (Inspected /\ InspectedByte = b("X"))
            /\ (Inspected /\ InspectedByte \notin Alphabet(A)) =>
                   /\ IsInvalidAttribute(result.res)
                   /\ result.res.val.ch = InspectedByte

\* AttrPos<5>::from_cfi_bytes for Form on "XXXXX9" rejects the '9' at index 5
C14_Witness ==
    /\ fn = "AttrPos::from_cfi_bytes"
    /\ ty = Form.name
    /\ arg = 5
    /\ value = Poke(5, 57, b("X"))
    /\ result.res = Err(InvalidAttribute(0, 57))


GroupDecoders == {"group::from_bytes", "CfiGroup::from_cfi_bytes"}

\* C18: on six bytes a group decoder reads its i-th attribute from index
\* i + 1: index 2 is always read, reads go 2, 3, 4, 5 in that order, and no
\* other index is read.
C18_GroupReadsOffsets ==
    (fn \in GroupDecoders /\ IsSix) =>
        /\ Len(result.reads) >= 1
        /\ \A i \in 1..Len(result.reads) : result.reads[i] = i + 1

\* C19: on six bytes with two or more attribute bytes outside their
\* position's alphabet, a group decoder returns the InvalidAttribute of the
\* lowest such index: from_bytes with that index and its byte, from_cfi_bytes
\* (whose attribute errors carry no index) with its byte.
C19_GroupFailFast ==
    (fn \in GroupDecoders /\ IsSix) =>
        LET bad == InvalidPositions(GroupNamed(ty), value)
        IN  Cardinality(bad) >= 2 =>
                /\ IsInvalidAttribute(result.res)
                /\ result.res.val.ch = value[Lowest(bad) + 1]
                /\ fn = "group::from_bytes" => result.res.val.pos = Lowest(bad)

IsErr(r, kind) == r.tag = "Err" /\ r.val.kind = kind

\* C20: an error returned by the group decoder a category decoder calls is
\* what the category decoder returns, and an error returned by the category
\* decoder the root calls is what the root returns; InvalidGroup comes from
\* category decoders (and through the root) only, InvalidCategory from the
\* root only.
C20_ErrorPassThrough ==
    /\ (fn = "category::from_bytes" /\ IsSix /\ value[2] \in GroupTags(CategoryNamed(ty))) =>
           LET C == CategoryNamed(ty)
               g == group_from_bytes(C.variants[Arm(C, value[2])].data, value)
           IN  g.res.tag = "Err" => result.res = g.res
    /\ (fn = "Code::from_bytes" /\ IsSix /\ value[1] = b("E")) =>
           LET c == category_from_bytes(equities_Equity, value)
           IN  /\ c.res.tag = "Err" => result.res = c.res
               /\ value[2] \in GroupTags(equities_Equity) =>
                      LET g == group_from_bytes(
                                   equities_Equity.variants[Arm(equities_Equity, value[2])].data,
                                   value)
                      IN  g.res.tag = "Err" => result.res = g.res
    /\ IsErr(result.res, "InvalidGroup") => fn \in {"category::from_bytes", "Code::from_bytes"}
    /\ IsErr(result.res, "InvalidCategory") => fn = "Code::from_bytes"

\* Code::from_bytes(b"ES9999") returns the error of Common::from_bytes
C20_Witness ==
    /\ fn = "Code::from_bytes"
    /\ value = <<b("E"), b("S"), 57, 57, 57, 57>>
    /\ group_from_bytes(equities_Common, value).res = Err(InvalidAttribute(3, 57))
    /\ result.res = Err(InvalidAttribute(3, 57))


IsPredicate == fn \in {"attr::is", "category::is", "Code::is"}

\* the predicates of the recorded call's type, by number (0 is is_undefined)
\* the variant each is written for
Predicates ==
    CASE fn = "attr::is" -> 0..Len(AttrNamed(ty).variants)
      [] fn = "category::is" -> 1..Len(CategoryNamed(ty).variants)
      [] fn = "Code::is" -> 1..Len(Code_is)

Names(i) ==
    CASE fn = "attr::is" -> IF i = 0 THEN "Undefined" ELSE AttrNamed(ty).variants[i].variant
      [] fn = "category::is" -> CategoryNamed(ty).variants[i].variant
      [] fn = "Code::is" -> Code_is[i].matches

\* whether predicate i holds of the recorded value
Holds(i) ==
    CASE fn = "attr::is" -> IF i = 0 THEN attr_is_undefined(AttrNamed(ty), self)
                                      ELSE attr_is(AttrNamed(ty), i, self)
      [] fn = "category::is" -> category_is(CategoryNamed(ty), i, self)
      [] fn = "Code::is" -> Code_is_pred(i, self)

\* C15: of the predicates of a value's type exactly one returns true, the one
\* for the value's own variant: is_<member> / is_undefined of an attribute
\* value, is_<group> of a category value, the 14 Code::is_* of a Code value
\* (one per category tag).
C15_TagPredicates ==
    IsPredicate =>
        LET holding == {i \in Predicates : Holds(i)}
        IN  /\ Cardinality(holding) = 1
            /\ \A i \in holding : Names(i) = self.variant
            /\ result.res = Bool(arg \in holding)
            /\ fn = "Code::is" =>
                   /\ Len(Code_is) = Len(Code.variants)
                   /\ \E k \in 1..Len(Code.variants) : Code.variants[k].variant = self.variant

\* Form::Bearer.is_bearer() is true, and Form has the five predicates
C15_Witness ==
    /\ fn = "attr::is"
    /\ ty = Form.name
    /\ self = [ty |-> Form.name, variant |-> "Bearer"]
    /\ Predicates = 0..4
    /\ Names(arg) = "Bearer"
    /\ result.res = Bool(TRUE)

\* C16: mem::size_of::<Code>() is CFI_LENGTH, whichever variant a Code value
\* holds, the single-tag variants included.
C16_CodeSize ==
    fn = "mem::size_of" => result.res = Size(CFI_LENGTH)

\* the size is asked of Code::Misc(()), a single-tag variant, and is 6
C16_Witness ==
    /\ fn = "mem::size_of"
    /\ self = CodeValue("Misc", Unit)
    /\ size_of_payload("()") = 0
    /\ result.res = Size(6)

\* C17: a Code::from_bytes call that has returned, however its steps were
\* interleaved with those of other calls, returned what the call returns when
\* run alone; calls on equal slices returned equal results.
C17_Interleaving ==
    \A t \in Threads :
        calls[t].pc = "done" =>
            /\ calls[t].res = Code_from_bytes(calls[t].src).res
            /\ \A u \in Threads :
                   (calls[u].pc = "done" /\ calls[u].src = calls[t].src)
                       => calls[u].res = calls[t].res

\* thread 1 has returned from decoding "ESVUFB" while thread 2 is in the
\* middle of decoding "ESVVUF"
C17_Witness ==
    /\ calls[1].pc = "done"
    /\ calls[1].src = Text(<<"E", "S", "V", "U", "F", "B">>)
    /\ calls[1].res = Err(InvalidAttribute(3, b("U")))
    /\ calls[2].pc = "group::member"
    /\ calls[2].k = 3
    /\ calls[2].src = Text(<<"E", "S", "V", "V", "U", "F">>)


\* the variants of a tagged enumeration that a byte selects
Selected(variants, byte) == {i \in 1..Len(variants) : variants[i].value = byte}

\* C22: the 14 category tags of Code are pairwise distinct and so are the
\* group tags of each category, so byte 0 selects at most one Code variant
\* and byte 1 at most one group of the category; one byte may tag different
\* groups in two categories.
C22_TagUniqueness ==
    /\ (fn = "Code::from_bytes" /\ IsSix) =>
           /\ Len(Code.variants) = 14
           /\ \A i, j \in 1..Len(Code.variants) :
                  Code.variants[i].value = Code.variants[j].value => i = j
           /\ Cardinality(Selected(Code.variants, value[CATEGORY_IDX + 1])) <= 1
           /\ \E C, D \in Categories :
                  \E i \in 1..Len(C.variants), j \in 1..Len(D.variants) :
                      /\ C.name # D.name
                      /\ C.variants[i].value = D.variants[j].value
                      /\ C.variants[i].data.name # D.variants[j].data.name
    /\ (fn = "category::from_bytes" /\ IsSix) =>
           LET C == CategoryNamed(ty)
           IN  /\ \A i, j \in 1..Len(C.variants) :
                      C.variants[i].value = C.variants[j].value => i = j
               /\ Cardinality(Selected(C.variants, value[GROUP_IDX + 1])) <= 1

\* Debt::from_bytes on a slice whose byte 1 is 'C': the byte selects the one
\* group debt::Convertible, and in Equity it tags equities::Convertible
C22_Witness ==
    /\ fn = "category::from_bytes"
    /\ ty = debt_Debt.name
    /\ IsSix
    /\ value[2] = b("C")
    /\ Selected(debt_Debt.variants, value[2]) = {2}
    /\ debt_Debt.variants[2].data.name = debt_Convertible.name
    /\ equities_Equity.variants[Arm(equities_Equity, b("C"))].data.name = equities_Convertible.name


\* the bytes a category decoder accepts at index 1 of a six-byte slice: those
\* it does not answer with InvalidGroup
Accepted(C, slice) ==
    {c \in Byte : ~IsErr(category_from_bytes(C, [slice EXCEPT ![GROUP_IDX + 1] = c]).res,
                         "InvalidGroup")}

\* the groups whose tags are among the bytes acc
GroupsTagged(C, acc) ==
    {C.variants[i].data.name : i \in {k \in 1..Len(C.variants) : C.variants[k].value \in acc}}

EquityGroups ==
    {equities_Common.name, equities_Preferred.name, equities_Convertible.name,
     equities_PreferredConvertible.name, equities_LlpUnit.name,
     equities_DepositoryReceipt.name, equities_Structured.name, equities_Other.name}

\* what C23 says of Equity: the decoder accepts the tags of the eight named
\* groups, eight bytes in all, and answers every other byte with InvalidGroup
EquityAcceptsEight ==
    (fn = "category::from_bytes" /\ IsSix /\ ty = equities_Equity.name) =>
        LET acc == Accepted(equities_Equity, value)
        IN  /\ GroupsTagged(equities_Equity, acc) = EquityGroups
            /\ Cardinality(acc) = 8
            /\ value[2] \notin acc <=> result.res = Err(InvalidGroup(value[2]))

DebtAccepts(n) ==
    (fn = "category::from_bytes" /\ IsSix /\ ty = debt_Debt.name) =>
        Cardinality(Accepted(debt_Debt, value)) = n

\* C23 as stated: the Equity decoder accepts exactly the tags of its eight
\* groups and rejects every other byte with InvalidGroup; the Debt decoder
\* accepts exactly 10 group tags.
C23_GroupTagSets == EquityAcceptsEight /\ DebtAccepts(10)

\* C23 amended: the Equity decoder accepts exactly the tags of its eight
\* groups and rejects every other byte with InvalidGroup; the Debt decoder
\* accepts exactly 12 group tags.
C23_GroupTagSetsAmended == EquityAcceptsEight /\ DebtAccepts(12)

\* Debt::from_bytes on a slice tagged 'G' (MortgageBacked) is not answered
\* with InvalidGroup, and Equity::from_bytes would accept eight tags
C23_Witness ==
    /\ fn = "category::from_bytes"
    /\ ty = debt_Debt.name
    /\ IsSix
    /\ value[2] = b("G")
    /\ ~IsErr(result.res, "InvalidGroup")
    /\ Cardinality(GroupTags(debt_Debt)) = 12
    /\ Cardinality(Accepted(equities_Equity, value)) = 8


\* C24: NotApplicable::from_byte returns Ok(Undefined) for 'X' and
\* InvalidAttribute for every other byte; a group decoder returns Ok only
\* when each of its NotApplicable positions holds 'X'.
C24_NotApplicable ==
    /\ (fn = "attr::from_byte" /\ ty = NotApplicable.name) =>
           result.res = IF arg = b("X") THEN Ok(Undefined(NotApplicable))
                                        ELSE Err(InvalidAttribute(0, arg))
    /\ (fn \in GroupDecoders /\ IsSix /\ result.res.tag = "Ok") =>
           \A k \in 1..Len(GroupNamed(ty).members) :
               GroupNamed(ty).members[k].ty.name = NotApplicable.name
                   => value[k + 2] = b("X")


\* the fields of group G whose enumeration is not declared for the byte
\* index of the field (field number i stands at byte index i + 1)
Unbound(G) ==
    {k \in 1..Len(G.members) : (G.members[k].offset + 1) \notin G.members[k].ty.idx}

\* C25: every group declares four fields numbered 1..4 in order, and the
\* enumeration of field i lists byte index i + 1 among its positions, so
\* Attr1..Attr4 meet the CfiGroup bounds AttrPos<2>..AttrPos<5>.
C25_StaticPositionBinding ==
    fn \in GroupDecoders =>
        LET G == GroupNamed(ty)
        IN  /\ Len(G.members) = 4
            /\ \A k \in 1..Len(G.members) : G.members[k].offset = k
            /\ Unbound(G) = {}


\* <Common as CfiGroup>::from_cfi_bytes was called: Common's fourth field is
\* a Form, and Form is declared for byte index 5
C25_Witness ==
    /\ fn = "CfiGroup::from_cfi_bytes"
    /\ ty = equities_Common.name
    /\ equities_Common.members[4].ty.name = Form.name
    /\ equities_Common.members[4].offset = 4
    /\ 5 \in Form.idx
    /\ Unbound(equities_Common) = {}


Accessors == {"group::member", "CfiGroup::attrN"}

\* C26: an accessor called on a group value g returns the value stored in
\* its field, attrN returns what the named accessor of the N-th declared
\* field returns, and g is the same value after the call as before it.
C26_ReadOnlyAccessors ==
    [][fn' \in Accessors =>
          /\ self' = self
          /\ self'.ty = ty'
          /\ result'.res = Returned(self.fields[arg'])
          /\ fn' = "CfiGroup::attrN" =>
                 result'.res = Returned(group_member(GroupNamed(ty'), arg', self))]_vars

\* attr4 was called on an equities::Common whose form is Bearer and returned
\* Form::Bearer; the group value still holds its four fields
C26_Witness ==
    /\ fn = "CfiGroup::attrN"
    /\ ty = equities_Common.name
    /\ arg = 4
    /\ self.fields[1] = [ty |-> equities_VotingRight.name, variant |-> "Voting"]
    /\ self.fields[4] = [ty |-> Form.name, variant |-> "Bearer"]
    /\ result.res = Returned([ty |-> Form.name, variant |-> "Bearer"])


\* C27: on every slice the two decoders of a group, CfiGroup::from_cfi_bytes
\* and the inherent from_bytes, return the same result: the same value, or
\* the same error with the same position and byte.
C27_GroupDecodersAgree ==
    /\ fn = "group::from_bytes" =>
           result.res = group_from_cfi_bytes(GroupNamed(ty), value).res
    /\ fn = "CfiGroup::from_cfi_bytes" =>
           result.res = group_from_bytes(GroupNamed(ty), value).res

\* C28: on six bytes and idx in 0..5, from_bytes(value, idx) returns Ok(v)
\* exactly when from_byte(value[idx]) returns Ok(v) and otherwise
\* InvalidAttribute(idx, value[idx]); from_byte itself reports position 0.
C28_PositionIsIdx ==
    /\ (fn = "attr::from_bytes" /\ IsSix /\ arg < CFI_LENGTH) =>
           LET byte == value[arg + 1]
               r == attr_from_byte(AttrNamed(ty), byte)
           IN  /\ r.tag = "Ok" => result.res = r
               /\ result.res.tag = "Ok" => r = result.res
               /\ r.tag # "Ok" => result.res = Err(InvalidAttribute(arg, byte))
    /\ (fn = "attr::from_byte" /\ result.res.tag = "Err") =>
           result.res = Err(InvalidAttribute(0, arg))

\* Form::from_bytes(b"XXX9XX", 3) returns InvalidAttribute(3, '9')
C28_Witness ==
    /\ fn = "attr::from_bytes"
    /\ ty = Form.name
    /\ arg = 3
    /\ value = Poke(3, 57, b("X"))
    /\ attr_from_byte(Form, 57) = Err(InvalidAttribute(0, 57))
    /\ result.res = Err(InvalidAttribute(3, 57))

\* C29: for an enumeration bound to INDEX, AttrPos<INDEX>::from_cfi_bytes
\* reads the byte that from_bytes(value, INDEX) reads and returns the same
\* result, the position in InvalidAttribute included.
C29_AttrDecodersAgree ==
    fn = "AttrPos::from_cfi_bytes" =>
        LET r == attr_from_bytes(AttrNamed(ty), value, arg)
        IN  /\ result.reads = r.reads
            /\ result.res = r.res

=============================================================================
